---- MODULE Spec2Model ----
(***************************************************************************)
(* pycoreutils: the command registry (_cmds, addcommand, onlyunix,         *)
(* checkcommand, listcommands) and the dispatcher run() of                 *)
(* src/pycoreutils/__init__.py, with the command modules of                *)
(* src/pycoreutils/command/ that register themselves in the same registry. *)
(* Spec is the registry and the dispatcher with a command that may do      *)
(* anything; SpecModule is the script with the commands of the module that *)
(* call the operating system or loop; SpecCommands is the script with      *)
(* base64, basename, mkdir, seq, shuf and touch on a file system and a     *)
(* standard input, mkdir going through its loops turn by turn.             *)
(*                                                                         *)
(* A Python string is modelled as a sequence of atoms.  An atom is a       *)
(* maximal piece of text holding no separator, or one separator: "/" (the  *)
(* path separator), " " (a blank) and "," are atoms of their own, so that  *)
(* os.path.basename, str.join and textwrap.wrap are computed on the        *)
(* sequence the way the library computes them on the characters.  The      *)
(* operands of the commands that work on the characters of a word          *)
(* (basename, seq, shuf) are spelled character by character: there every   *)
(* atom is one character.                                                  *)
(***************************************************************************)
EXTENDS Integers, Sequences, FiniteSets, TLC

VARIABLES
    _cmds,       \* the module-level registry list
    system,      \* what platform.system() returns in this process
    pc,          \* "startup": modules are being loaded; "done": run() is over
    sys_argv,    \* the argument vector run() was called with
    argv,        \* run()'s list, as its argv.pop(0) left it
    width,       \* run()'s width parameter
    requestcmd,  \* run()'s local: the requested command name
    calls,       \* the handler invocations, in order: [f, argstr]
    stdout,      \* the lines written to standard output
    stderr,      \* the lines written to standard error
    raised,      \* the exception that left run() uncaught, or None
    exitstatus,  \* the exit status of the process
    fs,          \* the file system: the directories and the files' times
    stdin,       \* the text on standard input
    frame        \* the local variables of the command that is running

vars == <<_cmds, system, pc, sys_argv, argv, width, requestcmd, calls,
          stdout, stderr, raised, exitstatus, fs, stdin, frame>>

None == "None"

\* ------------------------------------------------------------------ bounds

\* The registry holds at most MaxCmds entries.
MaxCmds == 3

\* An argument vector holds at most MaxArgs arguments after the program name.
MaxArgs == 3

\* ----------------------------------------------------------------- strings

RECURSIVE join(_, _)
\* sep.join(list)
join(sep, list) ==
    IF list = <<>> THEN <<>>
    ELSE IF Len(list) = 1 THEN list[1]
    ELSE list[1] \o sep \o join(sep, Tail(list))

\* os.path.basename(p): what follows the last "/" of p, all of p without one.
basename(p) ==
    LET slashes == {i \in 1..Len(p) : p[i] = "/"}
        last == CHOOSE i \in slashes : \A j \in slashes : j <= i
    IN  IF slashes = {} THEN p ELSE SubSeq(p, last + 1, Len(p))

\* len(s): the number of characters of a string.
StrLen(s) ==
    LET RECURSIVE sum(_)
        sum(t) == IF t = <<>> THEN 0 ELSE Len(Head(t)) + sum(Tail(t))
    IN  sum(s)

\* ------------------------------------------------------- the command objects

\* A function object: its __name__, whether onlyunix() set its _onlyunix
\* attribute, and the module that defines it (two functions of the same name
\* are two objects).
arch_init == [__name__ |-> <<"arch">>, _onlyunix |-> FALSE, module |-> "pycoreutils"]
chown_init == [__name__ |-> <<"chown">>, _onlyunix |-> TRUE, module |-> "pycoreutils"]
arch_cmd == [__name__ |-> <<"arch">>, _onlyunix |-> FALSE, module |-> "pycoreutils.command.cmd_arch"]
sh_cmd == [__name__ |-> <<"sh">>, _onlyunix |-> FALSE, module |-> "pycoreutils.command.cmd_sh"]

\* The functions the modules pass to addcommand: arch and chown of
\* pycoreutils/__init__.py, the arch of command/cmd_arch.py and the sh of
\* command/cmd_sh.py.
Funcs == {arch_init, chown_init, arch_cmd, sh_cmd}

\* ------------------------------------------------------------- the registry

\* addcommand(f): the decorator appends f to _cmds, whatever _cmds holds.
\* A def statement makes the function and its decorator runs once, so a
\* function object is passed to addcommand once.
addcommand(f) ==
    /\ pc = "startup"
    /\ \A i \in 1..Len(_cmds) : _cmds[i] # f
    /\ Len(_cmds) < MaxCmds
    /\ _cmds' = Append(_cmds, f)
    /\ UNCHANGED <<system, pc, sys_argv, argv, width, requestcmd, calls,
                   stdout, stderr, raised, exitstatus, fs, stdin, frame>>

\* The list comprehension of checkcommand: the entries named command, in order.
Matching(cmds, command) ==
    SelectSeq(cmds, LAMBDA cmd : cmd.__name__ = command)

\* checkcommand with a[0] taken from the registry, not from the matches.
checkcommand_firstEntry(cmds, command) ==
    LET a == Matching(cmds, command)
        l == Len(a)
    IN  IF l = 0 THEN [tag |-> "False"]
        ELSE IF l > 1 THEN [tag |-> "raise", exc |-> "TypeError"]
        ELSE [tag |-> "function", f |-> cmds[1]]

\* checkcommand(command): False without a match, the function with one; with
\* more the raise statement is given a str, which is no exception, and the
\* interpreter raises TypeError in its place.
checkcommand(cmds, command) ==
    LET a == Matching(cmds, command)
        l == Len(a)
    IN  IF l = 0 THEN [tag |-> "False"]
        ELSE IF l > 1 THEN [tag |-> "raise", exc |-> "TypeError"]
        ELSE [tag |-> "function", f |-> a[1]]

\* listcommands with the names in the opposite order.
listcommands_reversed(cmds) ==
    [i \in 1..Len(cmds) |-> cmds[Len(cmds) + 1 - i].__name__]

\* listcommands(): the __name__ of every entry of _cmds, in order.
listcommands(cmds) ==
    [i \in 1..Len(cmds) |-> cmds[i].__name__]

\* ---------------------------------------------------------- library calls

\* str.split(): the pieces of s between its blanks, the empty ones dropped.
RECURSIVE split(_)
split(s) ==
    LET blanks == {i \in 1..Len(s) : s[i] = " "}
        first == CHOOSE i \in blanks : \A j \in blanks : i <= j
    IN  IF s = <<>> THEN <<>>
        ELSE IF blanks = {} THEN <<s>>
        ELSE IF first = 1 THEN split(Tail(s))
        ELSE <<SubSeq(s, 1, first - 1)>> \o split(SubSeq(s, first + 1, Len(s)))

\* textwrap.wrap(text, w): the words of text filled greedily into lines of at
\* most w characters, one blank between two words of a line (no word of the
\* model is longer than a line, so none is broken).
RECURSIVE fill(_, _, _, _)
fill(words, cur, lines, w) ==
    IF words = <<>> THEN (IF cur = <<>> THEN lines ELSE Append(lines, cur))
    ELSE IF cur = <<>> THEN fill(Tail(words), Head(words), lines, w)
    ELSE IF StrLen(cur) + 1 + StrLen(Head(words)) <= w
         THEN fill(Tail(words), cur \o <<" ">> \o Head(words), lines, w)
    ELSE fill(words, <<>>, Append(lines, cur), w)

wrap(text, w) == fill(split(text), <<>>, <<>>, w)

\* sys.exit(arg) and the end of the process: None is status 0, an integer is
\* the status, which the operating system keeps modulo 256.
ExitStatus(arg) ==
    IF arg = <<>> THEN 0 ELSE arg[1] % 256

\* str(x) of a value that may be None (<<>> is None, <<x>> is x).
StrOrNone(x) == IF x = <<>> THEN <<"None">> ELSE x[1]

\* ----------------------------------------------------------- the dispatcher

\* showbanner(width): the banner, a function of the width it is centered to.
showbanner(w) == <<"<PyCoreutils banner centered to ", ToString(w), ">">>

\* The names run() takes for the dispatcher itself.
EntryPoints == {<<"coreutils.py">>, <<"pycoreutils.py">>}

\* The first arguments that ask for the global help.
HelpFlags == {<<"-h">>, <<"-?">>, <<"--help">>}

\* IsHelp without the test for "-?".
IsHelp_noQuestionMark(av) ==
    /\ basename(av[1]) \in EntryPoints
    /\ (Len(av) = 1 \/ av[2] \in {<<"-h">>, <<"--help">>})

\* run(): is this the call for the global help?
IsHelp(av) ==
    /\ basename(av[1]) \in EntryPoints
    /\ (Len(av) = 1 \/ av[2] \in HelpFlags)

\* run(): the lines of the global help (without the backquote that opens the
\* quotation of its last line).
HelpText(prog, cmds, w) ==
    <<showbanner(w),
      <<"Usage: ">> \o prog \o <<" COMMAND [ OPTIONS ... ]\n">>,
      <<"Available commands:">>>>
    \o wrap(join(<<",", " ">>, listcommands(cmds)), w)
    \o << <<"\nUse ">> \o prog \o <<" COMMAND --help' for help">> >>

\* PoppedArgv without the argv.pop(0).
PoppedArgv_keeps(av) == av

\* run(): argv after "Get the requested command": the dispatcher's own name
\* is popped, a command's name stays.
PoppedArgv(av) ==
    IF basename(av[1]) \in EntryPoints THEN Tail(av) ELSE av

\* run(): requestcmd after "Get the requested command".
RequestCmd(av) ==
    IF basename(av[1]) \in EntryPoints THEN av[2] ELSE basename(av[1])

\* run(): the '_onlyunix' check.
OnlyUnixRefused(cmd, sys) ==
    cmd._onlyunix /\ sys = "Windows"

\* ArgStr joining all of argv, the command's name included.
ArgStr_whole(av) == join(<<" ">>, av)

\* run(): the argument string handed to the command.
ArgStr(av) == join(<<" ">>, Tail(av))

\* run(): the line the two except clauses print.
ErrorLine(av, err) ==
    av[1] \o <<": ">> \o StrOrNone(err.filename) \o <<": ">>
          \o StrOrNone(err.strerror)

\* What a command does once it is called: it writes out to standard output
\* and then returns, raises IOError or OSError (with or without an errno and
\* a file name), calls sys.exit, or raises another exception.
Behaviours ==
    {[kind |-> "return", out |-> o] : o \in {<<>>, << <<"42">> >>}}
    \cup {[kind |-> "IOError", out |-> <<>>, errno |-> <<2>>,
           filename |-> << <<"/", "no", "/", "such", "/", "file">> >>,
           strerror |-> << <<"No such file or directory">> >>],
          [kind |-> "OSError", out |-> <<>>, errno |-> <<13>>,
           filename |-> << <<"/", "etc">> >>,
           strerror |-> << <<"Permission denied">> >>],
          [kind |-> "OSError", out |-> <<>>, errno |-> <<>>,
           filename |-> <<>>, strerror |-> <<>>],
          [kind |-> "SystemExit", out |-> << <<"arch: extra operand f">> >>,
           code |-> <<1>>],
          [kind |-> "NotImplementedError", out |-> <<>>]}

\* What the command itself wrote to standard error before it ended (nothing,
\* if the behaviour names none).
StdErr(beh) == IF "err" \in DOMAIN beh THEN beh.err ELSE <<>>

\* CallCommand with sys.exit(1) in the two except clauses.
CallCommand_exit1(av, beh) ==
    IF beh.kind = "return"
    THEN [stdout |-> beh.out, stderr |-> StdErr(beh), raised |-> None,
          exitstatus |-> 0]
    ELSE IF beh.kind \in {"IOError", "OSError"}
    THEN [stdout |-> beh.out,
          stderr |-> StdErr(beh) \o <<ErrorLine(av, beh)>>,
          raised |-> "SystemExit", exitstatus |-> ExitStatus(<<1>>)]
    ELSE IF beh.kind = "SystemExit"
    THEN [stdout |-> beh.out, stderr |-> StdErr(beh),
          raised |-> "SystemExit",
          exitstatus |-> ExitStatus(beh.code)]
    ELSE [stdout |-> beh.out,
          stderr |-> StdErr(beh) \o << <<"Traceback: ", beh.kind>> >>,
          raised |-> beh.kind, exitstatus |-> 1]

\* CallCommand with a print() of its own after the command returns.
CallCommand_echoes(av, beh) ==
    IF beh.kind = "return"
    THEN [stdout |-> beh.out \o << <<>> >>, stderr |-> StdErr(beh),
          raised |-> None,
          exitstatus |-> 0]
    ELSE IF beh.kind \in {"IOError", "OSError"}
    THEN [stdout |-> beh.out,
          stderr |-> StdErr(beh) \o <<ErrorLine(av, beh)>>,
          raised |-> "SystemExit", exitstatus |-> ExitStatus(beh.errno)]
    ELSE IF beh.kind = "SystemExit"
    THEN [stdout |-> beh.out, stderr |-> StdErr(beh),
          raised |-> "SystemExit",
          exitstatus |-> ExitStatus(beh.code)]
    ELSE [stdout |-> beh.out,
          stderr |-> StdErr(beh) \o << <<"Traceback: ", beh.kind>> >>,
          raised |-> beh.kind, exitstatus |-> 1]

\* CallCommand with an except clause that swallows every other exception.
CallCommand_swallows(av, beh) ==
    IF beh.kind = "return"
    THEN [stdout |-> beh.out, stderr |-> StdErr(beh), raised |-> None,
          exitstatus |-> 0]
    ELSE IF beh.kind \in {"IOError", "OSError"}
    THEN [stdout |-> beh.out,
          stderr |-> StdErr(beh) \o <<ErrorLine(av, beh)>>,
          raised |-> "SystemExit", exitstatus |-> ExitStatus(beh.errno)]
    ELSE IF beh.kind = "SystemExit"
    THEN [stdout |-> beh.out, stderr |-> StdErr(beh),
          raised |-> "SystemExit",
          exitstatus |-> ExitStatus(beh.code)]
    ELSE [stdout |-> beh.out, stderr |-> StdErr(beh), raised |-> None,
          exitstatus |-> 0]

\* run(): the call of the command and the two except clauses around it:
\* what reached the two streams (the command's own text first), the exception
\* that ends the process, and the exit status.
CallCommand(av, beh) ==
    IF beh.kind = "return"
    THEN [stdout |-> beh.out, stderr |-> StdErr(beh), raised |-> None,
          exitstatus |-> 0]
    ELSE IF beh.kind \in {"IOError", "OSError"}
    THEN [stdout |-> beh.out,
          stderr |-> StdErr(beh) \o <<ErrorLine(av, beh)>>,
          raised |-> "SystemExit", exitstatus |-> ExitStatus(beh.errno)]
    ELSE IF beh.kind = "SystemExit"
    THEN [stdout |-> beh.out, stderr |-> StdErr(beh),
          raised |-> "SystemExit",
          exitstatus |-> ExitStatus(beh.code)]
    ELSE [stdout |-> beh.out,
          stderr |-> StdErr(beh) \o << <<"Traceback: ", beh.kind>> >>,
          raised |-> beh.kind, exitstatus |-> 1]

\* run(): the exit of the global help.
HelpExit(prog, cmds, w) ==
    [stdout |-> HelpText(prog, cmds, w), stderr |-> <<>>,
     raised |-> "SystemExit", exitstatus |-> ExitStatus(<<1>>)]

\* NotSupportedExit with sys.exit() given no status.
NotSupportedExit_noStatus(av) ==
    [stdout |-> << <<"Command ">> \o av[1] \o <<" not supported.">>,
                   <<"Use pycoreutils.py --help for a list of valid commands.">> >>,
     stderr |-> <<>>, raised |-> "SystemExit", exitstatus |-> ExitStatus(<<>>)]

\* run(): the exit for a name checkcommand does not find.
NotSupportedExit(av) ==
    [stdout |-> << <<"Command ">> \o av[1] \o <<" not supported.">>,
                   <<"Use pycoreutils.py --help for a list of valid commands.">> >>,
     stderr |-> <<>>, raised |-> "SystemExit", exitstatus |-> ExitStatus(<<1>>)]

\* run(): the exit for a command that does not work on Windows.
WindowsExit(av) ==
    [stdout |-> << <<"Command ">> \o av[1] \o <<" does not work on Windows">> >>,
     stderr |-> <<>>, raised |-> "SystemExit", exitstatus |-> ExitStatus(<<1>>)]

\* An exception nothing catches: the interpreter prints the traceback and the
\* process ends with status 1.
Uncaught(exc) ==
    [stdout |-> <<>>, stderr |-> << <<"Traceback: ", exc>> >>,
     raised |-> exc, exitstatus |-> 1]

\* run(argv, width) with the registry cmds on the platform sys, from its first
\* line to the end of the process; beh is what the command does if run()
\* calls it.  The result holds run()'s locals, the calls it made and what the
\* process left behind.
Dispatch(av, w, cmds, sys, beh) ==
    IF IsHelp(av)
    THEN [argv |-> av, requestcmd |-> basename(av[1]), calls |-> <<>>]
         @@ HelpExit(basename(av[1]), cmds, w)
    ELSE LET a == PoppedArgv(av)
             r == RequestCmd(av)
             cmd == checkcommand(cmds, r)
             locals == [argv |-> a, requestcmd |-> r]
         IN  IF cmd.tag = "raise"
             THEN locals @@ [calls |-> <<>>] @@ Uncaught(cmd.exc)
             ELSE IF cmd.tag = "False"
             THEN locals @@ [calls |-> <<>>] @@ NotSupportedExit(a)
             ELSE IF OnlyUnixRefused(cmd.f, sys)
             THEN locals @@ [calls |-> <<>>] @@ WindowsExit(a)
             ELSE locals
                  @@ [calls |-> <<[f |-> cmd.f, argstr |-> ArgStr(a),
                                   did |-> beh]>>]
                  @@ CallCommand(a, beh)

\* Finish with a run() that empties the registry.
Finish_clears(av, w, res) ==
    /\ pc' = "done"
    /\ sys_argv' = av
    /\ width' = w
    /\ argv' = res.argv
    /\ requestcmd' = res.requestcmd
    /\ calls' = res.calls
    /\ stdout' = res.stdout
    /\ stderr' = res.stderr
    /\ raised' = res.raised
    /\ exitstatus' = res.exitstatus
    /\ _cmds' = <<>>
    /\ UNCHANGED system

\* The process after run(): the result of Dispatch in the variables.
Finish(av, w, res) ==
    /\ pc' = "done"
    /\ sys_argv' = av
    /\ width' = w
    /\ argv' = res.argv
    /\ requestcmd' = res.requestcmd
    /\ calls' = res.calls
    /\ stdout' = res.stdout
    /\ stderr' = res.stderr
    /\ raised' = res.raised
    /\ exitstatus' = res.exitstatus
    /\ UNCHANGED <<_cmds, system>>

\* The program runs: run(av, w) once the modules are loaded.  What the command
\* does is open only when run() calls it.
run(av, w) ==
    /\ pc = "startup"
    /\ LET any == CHOOSE b \in Behaviours : TRUE
           res == Dispatch(av, w, _cmds, system, any)
       IN  IF res.calls = <<>>
           THEN Finish(av, w, res)
           ELSE \E beh \in Behaviours :
                    Finish(av, w, Dispatch(av, w, _cmds, system, beh))
    /\ UNCHANGED <<fs, stdin, frame>>

\* ------------------------------------------------------------ the inputs

\* What the program is started as: the dispatcher under its two names, and a
\* link to it named after a command.
Progs ==
    {<<"coreutils.py">>, <<"bin", "/", "pycoreutils.py">>,
     <<"arch">>, <<"bin", "/", "chown">>, <<"bin", "/", "sh">>}

\* The first argument: a command name or a flag.
FirstArgs ==
    {<<"arch">>, <<"chown">>, <<"sh">>, <<"-h">>, <<"-?">>, <<"--help">>}

\* The arguments after the first.
OtherArgs == {<<"--help">>, <<"f">>}

\* The argument lists of at most n arguments.
RECURSIVE OtherLists(_)
OtherLists(n) ==
    IF n = 0 THEN {<<>>}
    ELSE OtherLists(n - 1)
         \cup {Append(l, x) : l \in OtherLists(n - 1), x \in OtherArgs}

ArgLists ==
    {<<>>} \cup {<<x>> \o l : x \in FirstArgs, l \in OtherLists(MaxArgs - 1)}

ArgVectors == {<<p>> \o l : p \in Progs, l \in ArgLists}

\* The widths run() is called with: its default, and a narrow one.
Widths == {78, 12}

Platforms == {"Linux", "Windows"}

\* ------------------------------------------------------- the specification

Init ==
    /\ _cmds = <<>>
    /\ system \in Platforms
    /\ pc = "startup"
    /\ sys_argv = <<>>
    /\ argv = <<>>
    /\ width = 78
    /\ requestcmd = <<>>
    /\ calls = <<>>
    /\ stdout = <<>>
    /\ stderr = <<>>
    /\ raised = None
    /\ exitstatus = 0
    /\ fs = [dirs |-> {}, times |-> <<>>]
    /\ stdin = <<>>
    /\ frame = <<>>

Next ==
    \/ \E f \in Funcs : addcommand(f)
    \/ \E av \in ArgVectors, w \in Widths : run(av, w)

Spec == Init /\ [][Next]_vars

\* ------------------------------------------------ the commands of the module

\* The functions pycoreutils/__init__.py defines under @addcommand that the
\* model gives a body (arch_init is the first of them).
cd_init == [__name__ |-> <<"cd">>, _onlyunix |-> FALSE, module |-> "pycoreutils"]
chroot_init == [__name__ |-> <<"chroot">>, _onlyunix |-> FALSE, module |-> "pycoreutils"]
httpd_init == [__name__ |-> <<"httpd">>, _onlyunix |-> FALSE, module |-> "pycoreutils"]
ln_init == [__name__ |-> <<"ln">>, _onlyunix |-> TRUE, module |-> "pycoreutils"]
mktemp_init == [__name__ |-> <<"mktemp">>, _onlyunix |-> FALSE, module |-> "pycoreutils"]
mv_init == [__name__ |-> <<"mv">>, _onlyunix |-> FALSE, module |-> "pycoreutils"]
rm_init == [__name__ |-> <<"rm">>, _onlyunix |-> FALSE, module |-> "pycoreutils"]
rmdir_init == [__name__ |-> <<"rmdir">>, _onlyunix |-> FALSE, module |-> "pycoreutils"]
sendmail_init == [__name__ |-> <<"sendmail">>, _onlyunix |-> FALSE, module |-> "pycoreutils"]
smtpd_init == [__name__ |-> <<"smtpd">>, _onlyunix |-> FALSE, module |-> "pycoreutils"]
sleep_init == [__name__ |-> <<"sleep">>, _onlyunix |-> FALSE, module |-> "pycoreutils"]
whoami_init == [__name__ |-> <<"whoami">>, _onlyunix |-> TRUE, module |-> "pycoreutils"]
yes_init == [__name__ |-> <<"yes">>, _onlyunix |-> FALSE, module |-> "pycoreutils"]

\* These functions in the order of their def statements in the file (smtpd is
\* defined before sleep).
ModuleDefs ==
    <<arch_init, cd_init, chroot_init, httpd_init, ln_init, mktemp_init,
      mv_init, rm_init, rmdir_init, sendmail_init, smtpd_init, sleep_init,
      whoami_init, yes_init>>

\* The module is imported: its next def statement runs, and the decorator
\* appends the function to _cmds.
import_pycoreutils ==
    /\ pc = "startup"
    /\ Len(_cmds) < Len(ModuleDefs)
    /\ _cmds' = Append(_cmds, ModuleDefs[Len(_cmds) + 1])
    /\ UNCHANGED <<system, pc, sys_argv, argv, width, requestcmd, calls,
                   stdout, stderr, raised, exitstatus, fs, stdin, frame>>

\* __license__, the text printlicense prints.
__license__ == <<"Copyright (c) 2009, 2010, 2011 Hans van Leeuwen ...">>

\* ------------------------------------------------------------ the bounds

\* A command is given at most MaxWords arguments.
MaxWords == 2

\* A loop of a command is followed for at most MaxTurns turns.
MaxTurns == 2

\* ------------------------------------------------ the option parser

\* The words of the model that optparse reads as options (they start with a
\* dash); every other word is an operand.
Dashed == {<<"--license">>, <<"--help">>, <<"-f">>}

\* OptionParser.error(): the usage and the message on standard error, and
\* sys.exit(2).
optparse_error(prog, msg) ==
    [kind |-> "SystemExit", out |-> <<>>,
     err |-> << <<"Usage: ">> \o prog \o <<" [OPTION]...">>,
                prog \o <<": error: ">> \o msg >>,
     code |-> <<2>>, ops |-> <<>>]

\* p.parse_args(words) of a parser made by parseoptions(), with the flags
\* (store_true options) and the valued options the command added, opts and
\* args being what the words read so far gave.  The words are read from left
\* to right: --help prints the help and exits 0, --license calls
\* printlicense(), which prints the license and exits 0, a valued option
\* takes the next word whatever it is, an unknown option is an error, an
\* operand is kept, and the word -- ends the options: what follows it are
\* operands.  A word spelled character by character is an option when it
\* starts with a dash and is longer than the dash.  The result is the exit,
\* or the options and operands.
RECURSIVE parse_args(_, _, _, _, _, _)
parse_args(prog, words, flags, valued, opts, args) ==
    IF words = <<>>
    THEN [kind |-> "parsed", opts |-> opts, args |-> args]
    ELSE LET w == Head(words)
         IN  IF w = <<"--help">>
             THEN [kind |-> "SystemExit",
                   out |-> << <<"Usage: ">> \o prog \o <<" [OPTION]...">> >>,
                   err |-> <<>>, code |-> <<0>>, ops |-> <<>>]
             ELSE IF w = <<"--license">>
             THEN [kind |-> "SystemExit", out |-> <<__license__>>,
                   err |-> <<>>, code |-> <<0>>, ops |-> <<>>]
             ELSE IF w = <<"-", "-">>
             THEN [kind |-> "parsed", opts |-> opts,
                   args |-> args \o Tail(words)]
             ELSE IF w \in flags
             THEN parse_args(prog, Tail(words), flags, valued,
                             opts \cup {w}, args)
             ELSE IF w \in valued
             THEN IF Tail(words) = <<>>
                  THEN optparse_error(prog, w \o <<" option requires an argument">>)
                  ELSE parse_args(prog, Tail(Tail(words)), flags, valued,
                                  opts \cup {w}, args)
             ELSE IF w \in Dashed \/ (Len(w) > 1 /\ w[1] = "-")
             THEN optparse_error(prog, <<"no such option: ">> \o w)
             ELSE parse_args(prog, Tail(words), flags, valued, opts,
                             Append(args, w))

\* ------------------------------------------- the operating system's answers

\* The environment of a process: user is USER (or USERNAME), <<>> when
\* neither is set; fail is the error of the first operating-system call of
\* the command, <<>> when it succeeds (the later ones succeed); sub is
\* whether the program chroot starts can be executed; py is the major
\* version of the interpreter.  HOME and SHELL are set.
Errors ==
    {[class |-> "IOError", errno |-> <<2>>,
      strerror |-> << <<"No such file or directory">> >>],
     [class |-> "OSError", errno |-> <<13>>,
      strerror |-> << <<"Permission denied">> >>]}

Environments ==
    [user : {<<>>, << <<"root">> >>},
     fail : {<<>>} \cup {<<e>> : e \in Errors},
     sub : {"ok", "fail"},
     py : {2, 3}]

\* The exception of a failed call: class(errno, strerror, filename).
EnvironmentError(class, e, filename) ==
    [kind |-> class, errno |-> e.errno, filename |-> filename,
     strerror |-> e.strerror]

\* One call of the operating system by a command: the function called, its
\* argument, and the exception it raised (<<>> when it returned).
OsCall(name, arg, error) == [call |-> name, arg |-> arg, error |-> error]

\* The exception of the n-th call of an os function on path by a command
\* that runs in env: the first one fails as env says, with OSError.
OsError(env, n, path) ==
    IF n = 1 /\ env.fail # <<>>
    THEN <<EnvironmentError("OSError", env.fail[1], <<path>>)>>
    ELSE <<>>

\* The exception of binding or connecting a socket: socket.error, which has
\* no file name.
SocketError(env) ==
    IF env.fail # <<>>
    THEN <<EnvironmentError(env.fail[1].class, env.fail[1], <<>>)>>
    ELSE <<>>

\* Does an except clause for the class clause catch an exception of the
\* class kind?  IOError and OSError are one class in Python 3 and two
\* unrelated classes in Python 2.
Catches(clause, kind, py) ==
    kind = clause \/ (py = 3 /\ {clause, kind} \subseteq {"IOError", "OSError"})

\* ------------------------------------------------ how a command ends

\* The command returns.
Return(out, ops) == [kind |-> "return", out |-> out, err |-> <<>>, ops |-> ops]

\* The command calls sys.exit(code).
Exit(out, code, ops) ==
    [kind |-> "SystemExit", out |-> out, err |-> <<>>, code |-> <<code>>,
     ops |-> ops]

\* The command raises the exception exc, which has no errno.
Raise(exc, out, ops) == [kind |-> exc, out |-> out, err |-> <<>>, ops |-> ops]

\* The command lets the exception e of a call pass.
RaiseError(e, out, ops) ==
    [kind |-> e.kind, out |-> out, err |-> <<>>, ops |-> ops,
     errno |-> e.errno, filename |-> e.filename, strerror |-> e.strerror]

\* The command enters its endless loop, each turn of which prints line.
Loops(out, ops, line) ==
    [kind |-> "loop", out |-> out, err |-> <<>>, ops |-> ops, line |-> line]

\* The two lines the commands print for a missing and for an extra operand
\* (without the quotation marks around the operand).
MissingOperand(prog) ==
    << prog \o <<": missing operand">>,
       <<"Try ">> \o prog \o <<" --help' for more information.">> >>

ExtraOperand(prog, operand) ==
    << prog \o <<": extra operand ">> \o operand,
       <<"Try ">> \o prog \o <<" --help' for more information.">> >>

\* ------------------------------------------------------- the commands

\* arch(argstr): no operand is allowed; it prints platform.machine().
arch(prog, words, env) ==
    LET p == parse_args(prog, words, {}, {}, {}, <<>>)
    IN  IF p.kind # "parsed" THEN p
        ELSE IF Len(p.args) > 0
        THEN Exit(ExtraOperand(prog, p.args[1]), 1, <<>>)
        ELSE Return(<< <<"x86_64">> >>, <<>>)

\* cd(argstr): os.chdir to HOME or to the operand; the branch for more than
\* one operand formats its message with prog, a name cd never binds, which
\* raises NameError.
cd(prog, words, env) ==
    LET p == parse_args(prog, words, {}, {}, {}, <<>>)
        pth == IF Len(p.args) = 0 THEN <<"/", "root">> ELSE p.args[1]
        e == OsError(env, 1, pth)
        ops == <<OsCall("os.chdir", pth, e)>>
    IN  IF p.kind # "parsed" THEN p
        ELSE IF Len(p.args) > 1 THEN Raise("NameError", <<>>, <<>>)
        ELSE IF e # <<>> THEN RaiseError(e[1], <<>>, ops)
        ELSE Return(<<>>, ops)

\* chroot(argstr): os.chroot(NEWROOT), whose OSError it catches and reports
\* itself, and then, in either case, subprocess.call(args), where args
\* starts with NEWROOT (without a command, the shell and -i are appended).
\* NEWROOT is started as a program: that fails when it is the directory
\* os.chroot took, and otherwise as the environment says.
chroot(prog, words, env) ==
    LET p == parse_args(prog, words, {}, {}, {}, <<>>)
        args == IF Len(p.args) = 1
                THEN p.args \o << <<"/", "bin", "/", "sh">>, <<"-i">> >>
                ELSE p.args
        e == OsError(env, 1, args[1])
        out == IF e = <<>> THEN <<>>
               ELSE << <<"chroot: cannot change root directory to ">>
                       \o args[1] \o <<": ">> \o StrOrNone(e[1].strerror) >>
        sub == IF e # <<>> /\ env.sub = "ok" THEN <<>>
               ELSE <<[kind |-> "OSError", errno |-> <<13>>,
                       filename |-> <<args[1]>>,
                       strerror |-> << <<"Permission denied">> >>]>>
        ops == <<OsCall("os.chroot", args[1], e),
                 OsCall("subprocess.call", args[1], sub)>>
    IN  IF p.kind # "parsed" THEN p
        ELSE IF Len(p.args) = 0 THEN Exit(MissingOperand(prog), 1, <<>>)
        ELSE IF sub # <<>> THEN RaiseError(sub[1], out, ops)
        ELSE Return(out, ops)

\* httpd(argstr): HTTPServer binds its socket, then server.serve_forever().
httpd(prog, words, env) ==
    LET p == parse_args(prog, words, {}, {<<"-a">>, <<"-p">>}, {}, <<>>)
        e == SocketError(env)
        ops == <<OsCall("HTTPServer", <<":8000">>, e)>>
    IN  IF p.kind # "parsed" THEN p
        ELSE IF e # <<>> THEN RaiseError(e[1], <<>>, ops)
        ELSE Loops(<<>>, ops, <<>>)

\* The OSError of os.link for a link name that exists.
EEXIST(dst) ==
    [kind |-> "OSError", errno |-> <<17>>, filename |-> <<dst>>,
     strerror |-> << <<"File exists">> >>]

\* ln(argstr): with one operand the link is named after the target's last
\* component, with two the second names it; then os.link(src, dst) for EVERY
\* operand src, the second included.  A link of a name to itself fails, so
\* the call for the second operand does, and the call for a single operand
\* without a directory part.  Whatever the call raises is caught and
\* reported by ln itself, which exits 1.  With more operands dst is not
\* bound, the NameError is caught by the same clause, and its err.strerror
\* raises AttributeError.
ln(prog, words, env) ==
    LET p == parse_args(prog, words, {<<"-s">>, <<"-v">>}, {}, {}, <<>>)
        dst == IF Len(p.args) = 1 THEN basename(p.args[1]) ELSE p.args[2]
        link(n, src) ==
            IF OsError(env, n, src) # <<>> THEN OsError(env, n, src)
            ELSE IF src = dst THEN <<EEXIST(dst)>>
            ELSE <<>>
        e1 == link(1, p.args[1])
        e2 == link(2, dst)
        report(src, e) ==
            << <<"ln: creating hard link ">> \o dst \o <<" => ">> \o src
               \o <<": ">> \o StrOrNone(e.strerror) >>
        op1 == OsCall("os.link", p.args[1], e1)
        op2 == OsCall("os.link", dst, e2)
    IN  IF p.kind # "parsed" THEN p
        ELSE IF Len(p.args) = 0 THEN Exit(MissingOperand(prog), 1, <<>>)
        ELSE IF Len(p.args) > 2 THEN Raise("AttributeError", <<>>, <<>>)
        ELSE IF e1 # <<>> THEN Exit(report(p.args[1], e1[1]), 1, <<op1>>)
        ELSE Exit(report(dst, e2[1]), 1, <<op1, op2>>)

\* mktemp(argstr): without an operand it makes the file and prints its name;
\* with one it raises NotImplementedError; with more it prints two lines
\* and returns.
mktemp(prog, words, env) ==
    LET p == parse_args(prog, words, {<<"-d">>}, {}, {}, <<>>)
        tmp == <<"/", "tmp", "/", "tmp.x">>
        e == OsError(env, 1, tmp)
        ops == <<OsCall("tempfile.mkstemp", tmp, e)>>
    IN  IF p.kind # "parsed" THEN p
        ELSE IF Len(p.args) = 0
        THEN IF e # <<>> THEN RaiseError(e[1], <<>>, ops)
             ELSE Return(<<tmp>>, ops)
        ELSE IF Len(p.args) = 1 THEN Raise("NotImplementedError", <<>>, <<>>)
        ELSE Return(<< <<"mktemp: too many templates">>,
                       <<"Try mktemp --help' for more information.">> >>,
                    <<>>)

\* mv(argstr): shutil.move(src, dest) for every operand but the last, which
\* raises IOError or OSError; mv has an except clause for IOError, in which
\* it prints the message and exits 1.
mv(prog, words, env) ==
    LET p == parse_args(prog, words, {<<"-v">>}, {}, {}, <<>>)
        dest == p.args[Len(p.args)]
        e == IF env.fail = <<>> THEN <<>>
             ELSE <<EnvironmentError(env.fail[1].class, env.fail[1],
                                     <<p.args[1]>>)>>
        ops == <<OsCall("shutil.move", p.args[1], e)>>
    IN  IF p.kind # "parsed" THEN p
        ELSE IF Len(p.args) = 0 THEN Exit(MissingOperand(prog), 1, <<>>)
        ELSE IF Len(p.args) = 1
        THEN Exit(<< <<"mv: missing destination file operand after ">>
                     \o p.args[1],
                     <<"Try 'mv --help' for more information.">> >>, 1, <<>>)
        ELSE IF e = <<>> THEN Return(<<>>, ops)
        ELSE IF Catches("IOError", e[1].kind, env.py)
        THEN Exit(<< <<"mv: ">> \o StrOrNone(e[1].strerror) >>, 1, ops)
        ELSE RaiseError(e[1], <<>>, ops)

\* rm(argstr): os.remove of every operand; its OSError goes to _raise(),
\* which drops it under -f and raises it again otherwise.
rm(prog, words, env) ==
    LET p == parse_args(prog, words, {<<"-f">>, <<"-r">>, <<"-v">>}, {}, {},
                        <<>>)
        e == OsError(env, 1, p.args[1])
        removed(n) == [i \in 1..n |->
                          OsCall("os.remove", p.args[i],
                                 OsError(env, i, p.args[i]))]
    IN  IF p.kind # "parsed" THEN p
        ELSE IF Len(p.args) = 0 THEN Exit(MissingOperand(prog), 1, <<>>)
        ELSE IF e # <<>> /\ <<"-f">> \notin p.opts
        THEN RaiseError(e[1], <<>>, removed(1))
        ELSE Return(<<>>, removed(Len(p.args)))

\* rmdir(argstr): os.rmdir of every operand, with no except clause.
rmdir(prog, words, env) ==
    LET p == parse_args(prog, words, {<<"-p">>}, {}, {}, <<>>)
        e == OsError(env, 1, p.args[1])
        removed(n) == [i \in 1..n |->
                          OsCall("os.rmdir", p.args[i],
                                 OsError(env, i, p.args[i]))]
    IN  IF p.kind # "parsed" THEN p
        ELSE IF Len(p.args) = 0 THEN Exit(MissingOperand(prog), 1, <<>>)
        ELSE IF e # <<>> THEN RaiseError(e[1], <<>>, removed(1))
        ELSE Return(<<>>, removed(Len(p.args)))

\* getcurrentusername(): USER, else USERNAME, else None.
getcurrentusername(env) == env.user

\* sendmail(argstr): the default of --sender, getcurrentusername() + "@" +
\* platform.node(), is computed while the options are added, before
\* parse_args; None + "@" raises TypeError.  After the options it reads the
\* message and connects to the mail server (what the server answers to the
\* mail is left out: the command returns).
sendmail(prog, words, env) ==
    LET p == parse_args(prog, words, {<<"-s">>, <<"-v">>},
                        {<<"-a">>, <<"-c">>, <<"-f">>, <<"-r">>, <<"-k">>,
                         <<"-m">>, <<"-p">>, <<"-t">>}, {}, <<>>)
        e == SocketError(env)
        ops == <<OsCall("smtplib.SMTP", <<"localhost:25">>, e)>>
    IN  IF getcurrentusername(env) = <<>> THEN Raise("TypeError", <<>>, <<>>)
        ELSE IF p.kind # "parsed" THEN p
        ELSE IF e # <<>> THEN RaiseError(e[1], <<>>, ops)
        ELSE Return(<<>>, ops)

\* smtpd(argstr): SMTPServer binds its socket, then asyncore.loop().
smtpd(prog, words, env) ==
    LET p == parse_args(prog, words, {},
                        {<<"-a">>, <<"-p">>, <<"-A">>, <<"-P">>}, {}, <<>>)
        e == SocketError(env)
        ops == <<OsCall("SMTPServer", <<":8025">>, e)>>
    IN  IF p.kind # "parsed" THEN p
        ELSE IF e # <<>> THEN RaiseError(e[1], <<>>, ops)
        ELSE Loops(<<>>, ops, <<>>)

\* The operands float() accepts (no word of the model has a unit suffix).
Numbers == {<<"1">>}

\* sleep(argstr): every operand is a number of seconds; the ValueError of
\* float() is caught and reported, with exit 1.
sleep(prog, words, env) ==
    LET p == parse_args(prog, words, {}, {}, {}, <<>>)
        bad == {i \in 1..Len(p.args) : p.args[i] \notin Numbers}
        arg == p.args[CHOOSE i \in bad : \A j \in bad : i <= j]
    IN  IF p.kind # "parsed" THEN p
        ELSE IF Len(p.args) = 0 THEN Exit(MissingOperand(prog), 1, <<>>)
        ELSE IF bad # {}
        THEN Exit(<< <<"sleep: invalid time interval ">> \o arg,
                     <<"Try sleep --help' for more information.">> >>, 1, <<>>)
        ELSE Return(<<>>, <<>>)

\* whoami(argstr): it prints the name of the user; the branch for an operand
\* formats its message with prog, a name whoami never binds, which raises
\* NameError.
whoami(prog, words, env) ==
    LET p == parse_args(prog, words, {}, {}, {}, <<>>)
    IN  IF p.kind # "parsed" THEN p
        ELSE IF Len(p.args) > 0 THEN Raise("NameError", <<>>, <<>>)
        ELSE Return(<< <<"root">> >>, <<>>)

\* yes(argstr): the operands joined by blanks, or y, printed forever.
yes(prog, words, env) ==
    LET p == parse_args(prog, words, {}, {}, {}, <<>>)
        x == join(<<" ">>, p.args)
    IN  IF p.kind # "parsed" THEN p
        ELSE Loops(<<>>, <<>>, IF x = <<>> THEN <<"y">> ELSE x)

\* cmd(argstr) for the function cmd of the registry: prog is what optparse
\* takes for the program name, the base name of sys.argv[0], which is the
\* list run() popped.
cmd(f, prog, words, env) ==
    CASE f = arch_init -> arch(prog, words, env)
      [] f = cd_init -> cd(prog, words, env)
      [] f = chroot_init -> chroot(prog, words, env)
      [] f = httpd_init -> httpd(prog, words, env)
      [] f = ln_init -> ln(prog, words, env)
      [] f = mktemp_init -> mktemp(prog, words, env)
      [] f = mv_init -> mv(prog, words, env)
      [] f = rm_init -> rm(prog, words, env)
      [] f = rmdir_init -> rmdir(prog, words, env)
      [] f = sendmail_init -> sendmail(prog, words, env)
      [] f = smtpd_init -> smtpd(prog, words, env)
      [] f = sleep_init -> sleep(prog, words, env)
      [] f = whoami_init -> whoami(prog, words, env)
      [] f = yes_init -> yes(prog, words, env)

\* ------------------------------------------------- the inputs of the module

\* The words given to a command: options and operands.
Words == {<<"--license">>, <<"--help">>, <<"-f">>, <<"a">>, <<"1">>}

\* The lists of at most n words.
RECURSIVE WordLists(_)
WordLists(n) ==
    IF n = 0 THEN {<<>>}
    ELSE WordLists(n - 1)
         \cup {Append(l, x) : l \in WordLists(n - 1), x \in Words}

\* The command lines: the global help, and every command of the module under
\* the dispatcher's name and through a link named after it.
CommandLines ==
    {<< <<"pycoreutils.py">> >>, << <<"pycoreutils.py">>, <<"--help">> >>}
    \cup {<< <<"pycoreutils.py">>, ModuleDefs[i].__name__ >> \o l :
              i \in 1..Len(ModuleDefs), l \in WordLists(MaxWords)}
    \cup {<< <<"bin", "/">> \o ModuleDefs[i].__name__ >> \o l :
              i \in 1..Len(ModuleDefs), l \in WordLists(MaxWords)}

\* ------------------------------------------------- the program as a process

\* The command is in its loop: run() has called it and it has not returned;
\* the streams hold what the command wrote before the loop.
Looping(av, w, res) ==
    /\ pc' = "loop"
    /\ sys_argv' = av
    /\ width' = w
    /\ argv' = res.argv
    /\ requestcmd' = res.requestcmd
    /\ calls' = res.calls
    /\ stdout' = res.calls[1].did.out
    /\ stderr' = res.calls[1].did.err
    /\ raised' = None
    /\ exitstatus' = 0
    /\ UNCHANGED <<_cmds, system>>

\* The default width of run().
DefaultWidth == 78

\* The program is run as a script: run() with sys.argv and the default
\* width, once the module is loaded, for some command line av in some
\* environment env.  A command that loops leaves the process in its loop.
main ==
    /\ pc = "startup"
    /\ Len(_cmds) = Len(ModuleDefs)
    /\ \E av \in CommandLines, env \in Environments :
           LET any == CHOOSE b \in Behaviours : TRUE
               pre == Dispatch(av, DefaultWidth, _cmds, system, any)
               beh == cmd(pre.calls[1].f, basename(pre.argv[1]),
                          split(pre.calls[1].argstr), env)
               res == Dispatch(av, DefaultWidth, _cmds, system, beh)
           IN  IF pre.calls = <<>> THEN Finish(av, DefaultWidth, pre)
               ELSE IF beh.kind = "loop"
               THEN Looping(av, DefaultWidth, res)
               ELSE Finish(av, DefaultWidth, res)
    /\ UNCHANGED <<fs, stdin, frame>>

\* One turn of the loop: yes prints its line, httpd serves a request and
\* logs it on standard error, smtpd polls its sockets.
turn ==
    /\ pc = "loop"
    /\ Len(stdout) + Len(stderr) < MaxTurns
    /\ stdout' = IF calls[1].f = yes_init
                 THEN Append(stdout, calls[1].did.line) ELSE stdout
    /\ stderr' = IF calls[1].f = httpd_init
                 THEN Append(stderr, <<"GET / HTTP/1.1 200 -">>) ELSE stderr
    /\ UNCHANGED <<_cmds, system, pc, sys_argv, argv, width, requestcmd,
                   calls, raised, exitstatus, fs, stdin, frame>>

\* The exception of a print() whose standard output is closed.
EPIPE ==
    [kind |-> "IOError", errno |-> <<32>>, filename |-> <<>>,
     strerror |-> << <<"Broken pipe">> >>]

\* The process from the end of a command that was in its loop: run() gets
\* beh, the end of the command.
Ends(beh) ==
    LET res == CallCommand(argv, beh)
    IN  /\ pc' = "done"
        /\ stdout' = res.stdout
        /\ stderr' = res.stderr
        /\ raised' = res.raised
        /\ exitstatus' = res.exitstatus
        /\ UNCHANGED <<_cmds, system, sys_argv, argv, width, requestcmd,
                       calls>>

\* print(x) fails in the loop of yes: the IOError leaves yes, which has no
\* except clause for it, and run() catches it.
print_fails ==
    /\ pc = "loop"
    /\ calls[1].f = yes_init
    /\ Ends(EPIPE @@ [out |-> stdout, err |-> stderr])
    /\ UNCHANGED <<fs, stdin, frame>>

\* The user interrupts the process: KeyboardInterrupt is raised in the loop.
KeyboardInterrupt ==
    /\ pc = "loop"
    /\ pc' = "interrupted"
    /\ UNCHANGED <<_cmds, system, sys_argv, argv, width, requestcmd, calls,
                   stdout, stderr, raised, exitstatus, fs, stdin, frame>>

\* except_KeyboardInterrupt with a command that has no except clause.
except_none(f, out, err) ==
    [kind |-> "KeyboardInterrupt", out |-> out, err |-> err]

\* The except KeyboardInterrupt clause around the loop of the function f,
\* which has written out and err: yes calls sys.exit(), httpd and smtpd
\* pass and return.
except_clause(f, out, err) ==
    IF f = yes_init
    THEN [kind |-> "SystemExit", out |-> out, err |-> err, code |-> <<>>]
    ELSE [kind |-> "return", out |-> out, err |-> err]

\* The interrupted command runs its except clause and ends.
except_KeyboardInterrupt ==
    /\ pc = "interrupted"
    /\ Ends(except_clause(calls[1].f, stdout, stderr))
    /\ UNCHANGED <<fs, stdin, frame>>

\* --------------------------------------- the specification of the module

NextModule ==
    \/ import_pycoreutils
    \/ main
    \/ turn
    \/ print_fails
    \/ KeyboardInterrupt
    \/ except_KeyboardInterrupt

\* The interpreter runs the except clause of an exception that was raised.
SpecModule ==
    Init /\ [][NextModule]_vars /\ WF_vars(except_KeyboardInterrupt)

\* ------------------------------------- the commands on files and on text
\* The function objects of base64, basename, mkdir, seq, shuf and touch, in
\* the order the module registers them.
base64_init == [__name__ |-> <<"base64">>, _onlyunix |-> FALSE, module |-> "pycoreutils"]
basename_init == [__name__ |-> <<"basename">>, _onlyunix |-> FALSE, module |-> "pycoreutils"]
mkdir_init == [__name__ |-> <<"mkdir">>, _onlyunix |-> FALSE, module |-> "pycoreutils"]
seq_init == [__name__ |-> <<"seq">>, _onlyunix |-> FALSE, module |-> "pycoreutils"]
shuf_init == [__name__ |-> <<"shuf">>, _onlyunix |-> FALSE, module |-> "pycoreutils"]
touch_init == [__name__ |-> <<"touch">>, _onlyunix |-> FALSE, module |-> "pycoreutils"]

FileCommands ==
    <<base64_init, basename_init, mkdir_init, seq_init, shuf_init, touch_init>>

\* The value optparse stores for the valued option opt: the word that
\* follows its last occurrence among the options, <<>> (None) without one.
RECURSIVE option_value(_, _, _)
option_value(words, valued, opt) ==
    IF words = <<>> \/ Head(words) = <<"-", "-">> THEN <<>>
    ELSE IF Head(words) \in valued /\ Len(words) > 1
    THEN LET later == option_value(Tail(Tail(words)), valued, opt)
         IN  IF later # <<>> \/ Head(words) # opt THEN later
             ELSE <<words[2]>>
    ELSE option_value(Tail(words), valued, opt)

\* s.rstrip(chars): s without its trailing characters that occur in chars.
RECURSIVE rstrip(_, _)
rstrip(s, chars) ==
    IF s # <<>> /\ \E i \in 1..Len(chars) : chars[i] = s[Len(s)]
    THEN rstrip(SubSeq(s, 1, Len(s) - 1), chars)
    ELSE s

\* basename(argstr): the last component of the first operand, its trailing
\* slashes dropped first; with a second operand, b.rstrip(args[1]).
basename_command(prog, words) ==
    LET p == parse_args(prog, words, {}, {}, {}, <<>>)
        b0 == p.args[1]
        b1 == IF Len(b0) > 1 THEN rstrip(b0, <<"/">>) ELSE b0
        b2 == basename(b1)
        b == IF Len(p.args) = 2 THEN rstrip(b2, p.args[2]) ELSE b2
    IN  IF p.kind # "parsed" THEN p
        ELSE IF Len(p.args) = 0 THEN Exit(MissingOperand(prog), 1, <<>>)
        ELSE IF Len(p.args) > 2
        THEN Exit(ExtraOperand(prog, p.args[1]), 1, <<>>)
        ELSE Return(<<b>>, <<>>)

\* ------------------------------------------------ the inputs of the commands

\* The command lines of the function f with the operand lists ls: under the
\* dispatcher's name and through a link named after the command.
LinesOf(f, ls) ==
    {<< <<"pycoreutils.py">>, f.__name__ >> \o l : l \in ls}
    \cup {<< <<"bin", "/">> \o f.__name__ >> \o l : l \in ls}

\* Names and suffixes for basename: test.txt, src/a.c, a name that holds a
\* blank, the empty string.
BasenameNames ==
    {<<"t", "e", "s", "t", ".", "t", "x", "t">>,
     <<"s", "r", "c", "/", "a", ".", "c">>,
     <<"a", " ", "b">>}

BasenameSuffixes ==
    {<<".", "t", "x", "t">>, <<".", "c">>, <<".", "h">>, <<>>}

BasenameLines ==
    LinesOf(basename_init,
            {<<>>} \cup {<<n>> : n \in BasenameNames}
            \cup {<<n, s>> : n \in BasenameNames, s \in BasenameSuffixes}
            \cup {<<n, s, s>> : n \in BasenameNames, s \in {<<".", "c">>}})

\* ---------------------------------------------- the commands as processes

\* run(av) of the script calls a command that ends as beh says and leaves
\* the file system newfs.
Runs(av, beh, newfs) ==
    /\ Finish(av, DefaultWidth,
              Dispatch(av, DefaultWidth, _cmds, system, beh))
    /\ fs' = newfs
    /\ UNCHANGED <<stdin, frame>>

\* The program name optparse shows for the command line av: run() pops the
\* dispatcher's name from sys.argv itself.
Prog(av) == basename(PoppedArgv(av)[1])

\* The words the command gets from run() for the command line av.
ArgWords(av) == split(ArgStr(PoppedArgv(av)))

\* The script is run for basename.
run_basename ==
    /\ pc = "startup"
    /\ \E av \in BasenameLines :
           Runs(av, basename_command(Prog(av), ArgWords(av)), fs)

\* ------------------------------------------------------ the file system

\* The pathlist of mkdir holds at most MaxList paths.
MaxList == 4

\* path without its trailing slashes, a path of one character kept.
Trimmed(path) == IF Len(path) > 1 THEN rstrip(path, <<"/">>) ELSE path

\* os.path.exists(path) in the file system f: the root exists, the empty
\* path does not, a directory is found with or without a trailing slash.
os_path_exists(f, path) ==
    \/ Trimmed(path) = <<"/">>
    \/ Trimmed(path) \in f.dirs
    \/ path \in DOMAIN f.times

\* os.path.split(p): what precedes the last slash, its trailing slashes
\* dropped unless it holds nothing else, and what follows the last slash.
os_path_split(p) ==
    LET slashes == {i \in 1..Len(p) : p[i] = "/"}
        i == IF slashes = {} THEN 0
             ELSE CHOOSE k \in slashes : \A j \in slashes : j <= k
        head == SubSeq(p, 1, i)
    IN  [head |-> IF \E j \in 1..Len(head) : head[j] # "/"
                  THEN rstrip(head, <<"/">>) ELSE head,
         tail |-> SubSeq(p, i + 1, Len(p))]

\* The exception of a call on a path that does not exist.
ENOENT(path) ==
    [kind |-> "OSError", errno |-> <<2>>, filename |-> <<path>>,
     strerror |-> << <<"No such file or directory">> >>]

\* The exception of os.mkdir(path) when it fails in the file system f: the
\* path exists, or its parent does not.
os_mkdir_exception(f, path) ==
    IF os_path_exists(f, path) THEN EEXIST(path) ELSE ENOENT(path)

\* The exception os.mkdir(path) raises in the file system f, <<>> when it
\* makes the directory: the path must not exist, its parent must (the
\* parent of a single name is the working directory).
os_mkdir_error(f, path) ==
    LET parent == os_path_split(Trimmed(path)).head
    IN  IF \/ os_path_exists(f, path)
           \/ path = <<>>
           \/ ~(parent = <<>> \/ os_path_exists(f, parent))
        THEN <<os_mkdir_exception(f, path)>>
        ELSE <<>>

\* The file system after os.mkdir(path) made the directory.
os_mkdir(f, path) == [f EXCEPT !.dirs = @ \cup {Trimmed(path)}]

\* ---------------------------------------------------------------- mkdir

\* The operands of mkdir: relative and absolute paths of one and two
\* components, one with a trailing slash.
MkdirPaths ==
    {<<"a">>, <<"a", "/", "b">>, <<"/", "a">>, <<"/", "a", "/", "b">>,
     <<"/", "a", "/">>}

MkdirLines ==
    LinesOf(mkdir_init,
            {<<>>, << <<"--help">> >>}
            \cup {o \o <<d>> : o \in {<<>>, << <<"-p">> >>, << <<"-v">> >>,
                                      << <<"-p">>, <<"-v">> >>},
                               d \in MkdirPaths}
            \cup { << <<"-p">>, <<"-v">>, <<"/", "a">>, <<"/", "a", "/", "b">> >> })

\* run() has called a command that goes on step by step: at is where the
\* command stands, fr its local variables.
Starts(av, at, fr) ==
    LET res == Dispatch(av, DefaultWidth, _cmds, system,
                        [kind |-> "running", out |-> <<>>, err |-> <<>>,
                         ops |-> <<>>])
    IN  /\ pc' = at
        /\ frame' = fr
        /\ sys_argv' = av
        /\ width' = DefaultWidth
        /\ argv' = res.argv
        /\ requestcmd' = res.requestcmd
        /\ calls' = res.calls
        /\ stdout' = <<>>
        /\ stderr' = <<>>
        /\ UNCHANGED <<_cmds, system, raised, exitstatus, fs, stdin>>

\* The command that went on step by step ends as beh says: run() gets its
\* return or its exception.
Stops(beh) ==
    LET res == CallCommand(argv, beh)
    IN  /\ pc' = "done"
        /\ stdout' = res.stdout
        /\ stderr' = res.stderr
        /\ raised' = res.raised
        /\ exitstatus' = res.exitstatus
        /\ UNCHANGED <<_cmds, system, sys_argv, argv, width, requestcmd,
                       stdin, frame>>

\* The command has called the operating system: call is added to the
\* calls it made.
Called(call) == calls' = [calls EXCEPT ![1].did.ops = Append(@, call)]

\* The script is run for mkdir: the options are parsed and the loop over
\* the operands begins.  (No command line of the model gives -m: the mode
\* is the default.)
run_mkdir ==
    /\ pc = "startup"
    /\ \E av \in MkdirLines :
           LET prog == Prog(av)
               p == parse_args(prog, ArgWords(av),
                               {<<"-p">>, <<"-v">>}, {<<"-m">>}, {}, <<>>)
           IN  IF p.kind # "parsed" THEN Runs(av, p, fs)
               ELSE IF Len(p.args) = 0
               THEN Runs(av, Exit(MissingOperand(prog), 1, <<>>), fs)
               ELSE Starts(av, "mkdir",
                           [parents |-> <<"-p">> \in p.opts,
                            verbose |-> <<"-v">> \in p.opts,
                            args |-> p.args, path |-> <<>>,
                            pathlist |-> <<>>])

\* What mkdir prints with -v for the directory path.
Created(path) == <<"mkdir: created directory ">> \o path

\* for arg in args: after the last operand mkdir returns; with -p the next
\* operand starts the list of the directories to create, without it
\* os.mkdir(arg) is called, and an exception of it leaves mkdir.
mkdir ==
    /\ pc = "mkdir"
    /\ IF frame.args = <<>>
       THEN /\ Stops([kind |-> "return", out |-> stdout, err |-> stderr])
            /\ UNCHANGED <<calls, fs>>
       ELSE LET arg == Head(frame.args)
                e == os_mkdir_error(fs, arg)
            IN  IF frame.parents
                THEN /\ pc' = "while"
                     /\ frame' = [frame EXCEPT !.args = Tail(@),
                                               !.path = arg,
                                               !.pathlist = <<>>]
                     /\ UNCHANGED <<_cmds, system, sys_argv, argv, width,
                                    requestcmd, calls, stdout, stderr,
                                    raised, exitstatus, fs, stdin>>
                ELSE IF e # <<>>
                THEN /\ Stops(RaiseError(os_mkdir_exception(fs, arg),
                                           stdout, <<>>))
                     /\ Called(OsCall("os.mkdir", arg, e))
                     /\ UNCHANGED fs
                ELSE /\ fs' = os_mkdir(fs, arg)
                     /\ Called(OsCall("os.mkdir", arg, e))
                     /\ stdout' = IF frame.verbose
                                  THEN Append(stdout, Created(arg))
                                  ELSE stdout
                     /\ frame' = [frame EXCEPT !.args = Tail(@)]
                     /\ UNCHANGED <<_cmds, system, pc, sys_argv, argv,
                                    width, requestcmd, stderr, raised,
                                    exitstatus, stdin>>

\* while not os.path.exists(path): the path goes to the front of pathlist
\* and its head becomes the path; when the path exists the loop is left.
mkdir_while ==
    /\ pc = "while"
    /\ IF ~os_path_exists(fs, frame.path)
       THEN /\ Len(frame.pathlist) < MaxList
            /\ frame' = [frame EXCEPT
                             !.pathlist = <<frame.path>> \o @,
                             !.path = os_path_split(frame.path).head]
            /\ pc' = pc
       ELSE /\ pc' = "for"
            /\ frame' = frame
    /\ UNCHANGED <<_cmds, system, sys_argv, argv, width, requestcmd, calls,
                   stdout, stderr, raised, exitstatus, fs, stdin>>

\* for path in pathlist: os.mkdir(path), an exception of which leaves
\* mkdir, and the message of -v; after the last one the next operand.
mkdir_for ==
    /\ pc = "for"
    /\ IF frame.pathlist = <<>>
       THEN /\ pc' = "mkdir"
            /\ UNCHANGED <<_cmds, system, sys_argv, argv, width, requestcmd,
                           calls, stdout, stderr, raised, exitstatus, fs,
                           stdin, frame>>
       ELSE LET path == Head(frame.pathlist)
                e == os_mkdir_error(fs, path)
            IN  IF e # <<>>
                THEN /\ Stops(RaiseError(os_mkdir_exception(fs, path),
                                           stdout, <<>>))
                     /\ Called(OsCall("os.mkdir", path, e))
                     /\ UNCHANGED fs
                ELSE /\ fs' = os_mkdir(fs, path)
                     /\ Called(OsCall("os.mkdir", path, e))
                     /\ stdout' = IF frame.verbose
                                  THEN Append(stdout, Created(path))
                                  ELSE stdout
                     /\ frame' = [frame EXCEPT !.pathlist = Tail(@),
                                               !.path = path]
                     /\ UNCHANGED <<_cmds, system, pc, sys_argv, argv,
                                    width, requestcmd, stderr, raised,
                                    exitstatus, stdin>>

\* ------------------------------------------------------------------ seq

\* The decimal digits.
Digits == <<"0", "1", "2", "3", "4", "5", "6", "7", "8", "9">>

\* Is s the spelling of an integer: digits, after a minus sign or not?
IsInt(s) ==
    LET d == IF s # <<>> /\ s[1] = "-" THEN Tail(s) ELSE s
    IN  d # <<>> /\ \A i \in 1..Len(d) : \E k \in 1..10 : Digits[k] = d[i]

\* int(s) of the spelling of an integer.
int(s) ==
    LET RECURSIVE nat(_)
        nat(d) ==
            IF d = <<>> THEN 0
            ELSE nat(SubSeq(d, 1, Len(d) - 1)) * 10
                 + (CHOOSE k \in 1..10 : Digits[k] = d[Len(d)]) - 1
    IN  IF s[1] = "-" THEN 0 - nat(Tail(s)) ELSE nat(s)

\* str(n) of an integer.
RECURSIVE str(_)
str(n) ==
    IF n < 0 THEN <<"-">> \o str(0 - n)
    ELSE IF n < 10 THEN <<Digits[n + 1]>>
    ELSE str(n \div 10) \o <<Digits[(n % 10) + 1]>>

\* list(range(start, stop, step)) for a step that is not 0: start,
\* start + step, ... as long as stop is not reached or passed.
range(start, stop, step) ==
    LET n == IF step > 0
             THEN (IF stop > start
                   THEN (stop - start + step - 1) \div step ELSE 0)
             ELSE (IF start > stop
                   THEN (start - stop - step - 1) \div (0 - step) ELSE 0)
    IN  [k \in 1..n |-> start + (k - 1) * step]

\* seq(argstr): range(1, LAST+1), range(FIRST, LAST+1) or
\* range(FIRST, LAST+1, INCREMENT), one number a line, or with -s all of
\* them on one line, the separator between them.  int() of a word that is
\* no number and range() with step 0 raise ValueError; with more than three
\* operands the list a is not bound.
seq(prog, words) ==
    LET p == parse_args(prog, words, {}, {<<"-s">>}, {}, <<>>)
        seperator == option_value(words, {<<"-s">>}, <<"-s">>)
        n == Len(p.args)
        a == IF n = 1 THEN range(1, int(p.args[1]) + 1, 1)
             ELSE IF n = 2
             THEN range(int(p.args[1]), int(p.args[2]) + 1, 1)
             ELSE range(int(p.args[1]), int(p.args[3]) + 1, int(p.args[2]))
        strs == [k \in 1..Len(a) |-> str(a[k])]
    IN  IF p.kind # "parsed" THEN p
        ELSE IF n = 0 THEN Exit(MissingOperand(prog), 1, <<>>)
        ELSE IF n > 3 THEN Raise("UnboundLocalError", <<>>, <<>>)
        ELSE IF \E i \in 1..n : ~IsInt(p.args[i])
        THEN Raise("ValueError", <<>>, <<>>)
        ELSE IF n = 3 /\ int(p.args[2]) = 0
        THEN Raise("ValueError", <<>>, <<>>)
        ELSE IF seperator = <<>> THEN Return(strs, <<>>)
        ELSE Return(<<join(seperator[1], strs)>>, <<>>)

\* The numbers given to seq.
SeqNumbers == {0 - 2, 1, 2, 5}

\* The command lines of seq: one, two and three numbers, as they are and
\* after --, the word that lets optparse take a negative number for an
\* operand; an increment of 0; a separator; a word that is no number; four
\* numbers.
SeqLines ==
    LET N == {str(x) : x \in SeqNumbers}
        lists == {<<l>> : l \in N} \cup {<<f, l>> : f \in N, l \in N}
                 \cup {<<f, i, l>> : f \in N, i \in N, l \in N}
    IN  LinesOf(seq_init,
                lists \cup {<< <<"-", "-">> >> \o l : l \in lists}
                \cup {<<>>, << <<"1">>, <<"0">>, <<"2">> >>,
                      << <<"-s">>, <<",">>, <<"2">> >>, << <<"x">> >>,
                      << <<"1">>, <<"1">>, <<"1">>, <<"1">> >>})

\* The script is run for seq.
run_seq ==
    /\ pc = "startup"
    /\ \E av \in SeqLines : Runs(av, seq(Prog(av), ArgWords(av)), fs)

\* ---------------------------------------------------------------- touch

\* time.time() when touch runs; the files that exist before are older.
Now == 1

\* The files of the working directory fls, each with the times 0.
Files(fls) == [p \in fls |-> [atime |-> 0, mtime |-> 0]]

\* The for loop of touch over the operands args in the file system f, with
\* the locals atime and mtime and the calls ops made so far: a missing file
\* is created by open(arg, 'w'), or with -c the loop is left by break; -a
\* keeps the file's modification time, -m its access time; os.utime sets
\* the two times.  The result is the file system and the calls.  (No
\* command line of the model gives -r.)
RECURSIVE touch_for(_, _, _, _, _, _)
touch_for(args, opts, f, atime, mtime, ops) ==
    IF args = <<>> THEN [fs |-> f, ops |-> ops]
    ELSE LET arg == Head(args)
             missing == ~os_path_exists(f, arg)
             nocreate == opts \cap {<<"-c">>, <<"--no-create">>} # {}
             g == IF missing
                  THEN [f EXCEPT !.times =
                            [p \in DOMAIN f.times \cup {arg} |->
                                 IF p = arg
                                 THEN [atime |-> Now, mtime |-> Now]
                                 ELSE f.times[p]]]
                  ELSE f
             mt == IF <<"-a">> \in opts THEN g.times[arg].mtime ELSE mtime
             at == IF <<"-m">> \in opts THEN g.times[arg].atime ELSE atime
         IN  IF missing /\ nocreate THEN [fs |-> f, ops |-> ops]
             ELSE touch_for(Tail(args), opts,
                            [g EXCEPT !.times[arg] =
                                          [atime |-> at, mtime |-> mt]],
                            at, mt,
                            Append(ops, OsCall("os.utime", arg, <<>>)))

\* touch(argstr): the times of each operand are set to the current time.
touch(prog, words, f) ==
    LET p == parse_args(prog, words,
                        {<<"-a">>, <<"-c">>, <<"--no-create">>, <<"-f">>,
                         <<"-m">>}, {<<"-r">>}, {}, <<>>)
        done == touch_for(p.args, p.opts, f, Now, Now, <<>>)
    IN  IF p.kind # "parsed" THEN p @@ [fs |-> f]
        ELSE IF Len(p.args) = 0
        THEN Exit(MissingOperand(prog), 1, <<>>) @@ [fs |-> f]
        ELSE Return(<<>>, done.ops) @@ [fs |-> done.fs]

\* The operands of touch: files of the working directory.
TouchFiles == {<<"f">>, <<"g">>, <<"h">>}

\* The command lines of touch: one or two files, or the three, without an
\* option and with -c, -a or -m.
TouchLines ==
    LET lists == {<<x>> : x \in TouchFiles}
                 \cup {l \in TouchFiles \X TouchFiles : l[1] # l[2]}
                 \cup {<< <<"f">>, <<"g">>, <<"h">> >>}
    IN  LinesOf(touch_init,
                {<<>>} \cup lists
                \cup {<<o>> \o l : o \in {<<"-c">>, <<"-a">>, <<"-m">>},
                                   l \in lists})

\* The script is run for touch.
run_touch ==
    /\ pc = "startup"
    /\ \E av \in TouchLines :
           LET beh == touch(Prog(av), ArgWords(av), fs)
           IN  Runs(av, beh, beh.fs)

\* --------------------------------------------------------------- base64

\* The texts of the model and their base64 encodings.
Base64Table ==
    {[data |-> <<"hi">>, code |-> <<"aGk=">>],
     [data |-> <<"aGk=">>, code |-> <<"YUdrPQ==">>],
     [data |-> <<"a", "\n", "b", "\n">>, code |-> <<"YQpiCg==">>],
     [data |-> <<"a", "\n", "b">>, code |-> <<"YQpi">>]}

\* What base64.encode writes for the data it reads: nothing for no data,
\* else the line of the encoding.
b64encode(data) ==
    IF data = <<>> THEN <<>>
    ELSE <<(CHOOSE t \in Base64Table : t.data = data).code>>

\* Is text the base64 encoding of some data?
IsBase64(text) == text = <<>> \/ \E t \in Base64Table : t.code = text

\* What base64.decode writes for the encoded text it reads.
b64decode(text) ==
    IF text = <<>> THEN <<>>
    ELSE <<(CHOOSE t \in Base64Table : t.code = text).data>>

\* The exception of reading sys.stdout, a stream that is open for writing
\* only: an IOError without errno, file name and strerror.
NotReadable ==
    [kind |-> "IOError", errno |-> <<>>, filename |-> <<>>,
     strerror |-> <<>>]

\* The standard streams.
sys_stdin == "sys.stdin"

sys_stdout == "sys.stdout"

\* _base64.decode(input, sys.stdout) and _base64.encode(input, sys.stdout)
\* for the stream input, standard input holding text, under the major
\* version py of the interpreter: reading sys.stdout raises; Python 3 hands
\* the text of a text stream to a function that wants bytes, which raises
\* TypeError, and so does the write of the decoded bytes to sys.stdout.
base64_stream(decode, input, text, py) ==
    LET op == OsCall(IF decode THEN "base64.decode" ELSE "base64.encode",
                     input, <<>>)
    IN  IF input = sys_stdout
        THEN RaiseError(NotReadable, <<>>,
                        <<[op EXCEPT !.error = <<NotReadable>>]>>)
        ELSE IF text = <<>> THEN Return(<<>>, <<op>>)
        ELSE IF py = 3 THEN Raise("TypeError", <<>>, <<op>>)
        ELSE IF ~decode THEN Return(b64encode(text), <<op>>)
        ELSE IF IsBase64(text) THEN Return(b64decode(text), <<op>>)
        ELSE Raise("binascii.Error", <<>>, <<op>>)

\* base64(argstr): without an operand, or with the operand -, -d decodes
\* from sys.stdout and the lack of -d encodes from sys.stdin; else the first
\* file is opened, which raises IOError when it does not exist.  (The files
\* of the model are empty, so a file that exists gives no output.)
base64(prog, words, f, text, py) ==
    LET p == parse_args(prog, words, {<<"-d">>}, {}, {}, <<>>)
        decode == <<"-d">> \in p.opts
        filename == p.args[1]
    IN  IF p.kind # "parsed" THEN p
        ELSE IF Len(p.args) = 0 \/ (Len(p.args) = 1 /\ p.args[1] = <<"-">>)
        THEN base64_stream(decode, IF decode THEN sys_stdout ELSE sys_stdin,
                           text, py)
        ELSE IF ~os_path_exists(f, filename)
        THEN RaiseError(ENOENT(filename) @@ [kind |-> "IOError"], <<>>,
                        <<OsCall("open", filename,
                                 <<ENOENT(filename)
                                   @@ [kind |-> "IOError"]>>)>>)
        ELSE Return(<<>>, <<OsCall("open", filename, <<>>)>>)

\* The command lines of base64: no operand, the operand -, a file, each
\* with and without -d.
Base64Lines ==
    LinesOf(base64_init,
            {o \o l : o \in {<<>>, << <<"-d">> >>},
                      l \in {<<>>, << <<"-">> >>, << <<"g">> >>}})

\* The major versions of the interpreter.
PythonVersions == {2, 3}

\* The script is run for base64.
run_base64 ==
    /\ pc = "startup"
    /\ \E av \in Base64Lines, py \in PythonVersions :
           Runs(av, base64(Prog(av), ArgWords(av), fs, stdin, py), fs)

\* ----------------------------------------------------------------- shuf

\* fd.readlines() of a stream that holds text: the lines, each with the
\* newline that ends it; the last one has none when the text does not end
\* with one.
RECURSIVE readlines(_)
readlines(text) ==
    LET nl == {i \in 1..Len(text) : text[i] = "\n"}
        first == CHOOSE i \in nl : \A j \in nl : i <= j
    IN  IF text = <<>> THEN <<>>
        ELSE IF nl = {} THEN <<text>>
        ELSE <<SubSeq(text, 1, first)>>
             \o readlines(SubSeq(text, first + 1, Len(text)))

\* The lines a reader finds in text: what readlines gives, the newlines
\* left out.
LinesOfText(text) ==
    LET ls == readlines(text)
    IN  [i \in 1..Len(ls) |-> rstrip(ls[i], <<"\n">>)]

\* What was written to a stream by the writes chunks, one after the other.
RECURSIVE written(_)
written(chunks) ==
    IF chunks = <<>> THEN <<>> ELSE Head(chunks) \o written(Tail(chunks))

\* s.split('-'): the pieces of s between its dashes.
RECURSIVE split_dash(_)
split_dash(s) ==
    LET dashes == {i \in 1..Len(s) : s[i] = "-"}
        first == CHOOSE i \in dashes : \A j \in dashes : i <= j
    IN  IF dashes = {} THEN <<s>>
        ELSE <<SubSeq(s, 1, first - 1)>>
             \o split_dash(SubSeq(s, first + 1, Len(s)))

\* lines[0:k]: the first k elements, all of them when there are fewer; for
\* a negative k all but the last -k.
slice(lines, k) ==
    IF k >= 0 THEN SubSeq(lines, 1, IF k < Len(lines) THEN k ELSE Len(lines))
    ELSE SubSeq(lines, 1, IF Len(lines) + k > 0 THEN Len(lines) + k ELSE 0)

\* The orders random.shuffle may leave a list of n elements in.
Shuffles(n) ==
    {pi \in [1..n -> 1..n] : \A i, j \in 1..n : pi[i] = pi[j] => i = j}

\* The valued options of shuf.
ShufValued == {<<"-i">>, <<"-n">>, <<"-o">>}

\* shuf(argstr) up to random.shuffle: the end of the command, or the list
\* lines to shuffle.  With -e the lines are the operands, each written with
\* a newline; else more than one operand is reported with prog, a name shuf
\* does not bind; with -i LO-HI they are the numbers of the range, each
\* written with a newline; else they are read from the file or from
\* standard input and written as they are.  (No command line of the model
\* gives -o, and the files of the model are empty.)
shuf_lines(prog, words, f, text) ==
    LET p == parse_args(prog, words, {<<"-e">>}, ShufValued, {}, <<>>)
        inputrange == option_value(words, ShufValued, <<"-i">>)
        lohi == split_dash(inputrange[1])
        nums == range(int(lohi[1]), int(lohi[2]) + 1, 1)
        withnl(ls) == [i \in 1..Len(ls) |-> ls[i] \o <<"\n">>]
    IN  IF p.kind # "parsed" THEN p
        ELSE IF <<"-e">> \in p.opts
        THEN IF inputrange # <<>>
             THEN Exit(<< <<"shuf: cannot combine -e and -i options">> >>,
                       1, <<>>)
             ELSE [kind |-> "lines", lines |-> withnl(p.args)]
        ELSE IF Len(p.args) > 1 THEN Raise("NameError", <<>>, <<>>)
        ELSE IF inputrange # <<>>
        THEN IF Len(lohi) # 2 \/ ~IsInt(lohi[1]) \/ ~IsInt(lohi[2])
             THEN Raise("ValueError", <<>>, <<>>)
             ELSE [kind |-> "lines",
                   lines |-> withnl([i \in 1..Len(nums) |-> str(nums[i])])]
        ELSE IF Len(p.args) = 0
        THEN [kind |-> "lines", lines |-> readlines(text)]
        ELSE IF ~os_path_exists(f, p.args[1])
        THEN RaiseError(ENOENT(p.args[1]) @@ [kind |-> "IOError"], <<>>,
                        <<OsCall("open", p.args[1],
                                 <<ENOENT(p.args[1])
                                   @@ [kind |-> "IOError"]>>)>>)
        ELSE [kind |-> "lines", lines |-> <<>>]

\* shuf(argstr) from random.shuffle, which leaves lines in the order pi:
\* with -n the first int(HEADCOUNT) of them are kept, and each is written
\* to standard output.
shuf(words, lines, pi) ==
    LET headcount == option_value(words, ShufValued, <<"-n">>)
        shuffled == [i \in 1..Len(lines) |-> lines[pi[i]]]
    IN  IF headcount = <<>>
        THEN Return(LinesOfText(written(shuffled)), <<>>)
        ELSE IF ~IsInt(headcount[1]) THEN Raise("ValueError", <<>>, <<>>)
        ELSE Return(LinesOfText(written(slice(shuffled,
                                              int(headcount[1])))), <<>>)

\* The command lines of shuf: standard input, a file, -e with operands,
\* -i with a range, each with and without -n; -e with -i; two operands.
ShufLines ==
    LET inputs == {<<>>, << <<"g">> >>, << <<"x">> >>,
                   << <<"-e">>, <<"x">>, <<"y">> >>,
                   << <<"-e">>, <<"x">>, <<"y">>, <<"x">> >>,
                   << <<"-i">>, <<"1", "-", "3">> >>}
        counts == {<<>>, << <<"-n">>, <<"0">> >>, << <<"-n">>, <<"2">> >>,
                   << <<"-n">>, <<"-", "1">> >>}
    IN  LinesOf(shuf_init,
                {n \o l : n \in counts, l \in inputs}
                \cup {<< <<"-e">>, <<"-i">>, <<"1", "-", "3">>, <<"x">> >>,
                      << <<"-i">>, <<"3">> >>,
                      << <<"x">>, <<"y">> >>})

\* The script is run for shuf.
run_shuf ==
    /\ pc = "startup"
    /\ \E av \in ShufLines :
           LET got == shuf_lines(Prog(av), ArgWords(av), fs, stdin)
           IN  IF got.kind # "lines" THEN Runs(av, got, fs)
               ELSE \E pi \in Shuffles(Len(got.lines)) :
                        Runs(av, shuf(ArgWords(av), got.lines, pi), fs)

\* ------------------------------------- the specification of the commands

\* The file systems a command may find: directories (the root always
\* exists) and files with their access and modification times.
FileSystems ==
    {[dirs |-> d, times |-> Files({})] :
         d \in {{}, {<<"a">>}, {<<"/", "a">>},
                {<<"/", "a">>, <<"/", "a", "/", "b">>}}}
    \cup {[dirs |-> {}, times |-> Files(fls)] :
              fls \in {{<<"g">>}, {<<"f">>, <<"h">>}}}

\* What standard input may hold.
Inputs ==
    {<<>>, <<"aGk=">>, <<"a", "\n", "b", "\n">>, <<"a", "\n", "b">>}

\* The module is loaded: the registry holds the commands.
InitCommands ==
    /\ _cmds = FileCommands
    /\ system \in Platforms
    /\ pc = "startup"
    /\ sys_argv = <<>>
    /\ argv = <<>>
    /\ width = DefaultWidth
    /\ requestcmd = <<>>
    /\ calls = <<>>
    /\ stdout = <<>>
    /\ stderr = <<>>
    /\ raised = None
    /\ exitstatus = 0
    /\ fs \in FileSystems
    /\ stdin \in Inputs
    /\ frame = <<>>

NextCommands ==
    \/ run_base64
    \/ run_basename
    \/ run_mkdir
    \/ run_seq
    \/ run_shuf
    \/ run_touch
    \/ mkdir
    \/ mkdir_while
    \/ mkdir_for

\* A command that is in one of its loops goes on: the interpreter takes the
\* next step of the loop.
SpecCommands ==
    InitCommands /\ [][NextCommands]_vars
    /\ WF_vars(mkdir \/ mkdir_while \/ mkdir_for)

\* ------------------------------------------------------------ the claims

\* Is name the __name__ of an entry of the registry?
Registered(name) ==
    \E i \in 1..Len(_cmds) : _cmds[i].__name__ = name

\* The entries of the registry named name.
EntriesNamed(name) ==
    {i \in 1..Len(_cmds) : _cmds[i].__name__ = name}

\* The program was started under the dispatcher's own name.
GenericForm ==
    basename(sys_argv[1]) \in {<<"coreutils.py">>, <<"pycoreutils.py">>}

\* The program was started for the global help: under the dispatcher's own
\* name, with no argument or with a help flag as the first one.
AskedForHelp ==
    /\ GenericForm
    /\ \/ Len(sys_argv) = 1
       \/ sys_argv[2] = <<"-h">>
       \/ sys_argv[2] = <<"-?">>
       \/ sys_argv[2] = <<"--help">>

\* A command was asked for: run() is over and it was not the global help.
Dispatched == pc = "done" /\ ~AskedForHelp

\* The command word of the command line: the first argument under the
\* dispatcher's own name, else the program name as it was typed.
CommandWord == IF GenericForm THEN sys_argv[2] ELSE sys_argv[1]

\* The arguments that follow the command name on the command line.
ArgsAfterName ==
    IF GenericForm THEN SubSeq(sys_argv, 3, Len(sys_argv)) ELSE Tail(sys_argv)

\* Does the string s hold the string sub?
Contains(s, sub) ==
    \E i \in 1..(Len(s) + 1) :
        /\ i + Len(sub) - 1 <= Len(s)
        /\ SubSeq(s, i, i + Len(sub) - 1) = sub

\* C1: dispatching a command name that no entry of the registry carries
\* prints `Command <name> not supported.' and the hint on standard output,
\* where <name> is the command word as typed (the resolved name is that word
\* or its last path component), ends the process with status 1 and calls no
\* handler, whatever the registry holds.
C1_UnregisteredExits1 ==
    (Dispatched /\ ~Registered(requestcmd)) =>
        /\ stdout = << <<"Command ">> \o CommandWord \o <<" not supported.">>,
                       <<"Use pycoreutils.py --help for a list of valid commands.">> >>
        /\ requestcmd \in {CommandWord, basename(CommandWord)}
        /\ exitstatus = 1
        /\ calls = <<>>

\* C1 witness: with a registry that holds commands, the program is started
\* through a link bin/sh with an argument; sh is not registered and the
\* process has ended with status 1.
C1_Witness ==
    /\ pc = "done"
    /\ Len(_cmds) = MaxCmds
    /\ sys_argv = << <<"bin", "/", "sh">>, <<"--help">> >>
    /\ exitstatus = 1
    /\ calls = <<>>

\* C2: a registered command marked onlyunix is refused on Windows (an error
\* naming it, status 1, no call) and called on every other platform; a
\* registered command not marked is called on every platform.
C2_PlatformCheck ==
    (Dispatched /\ Registered(requestcmd)) =>
        IF (\E i \in EntriesNamed(requestcmd) : _cmds[i]._onlyunix)
           /\ system = "Windows"
        THEN /\ stdout = << <<"Command ">> \o CommandWord
                               \o <<" does not work on Windows">> >>
             /\ exitstatus = 1
             /\ calls = <<>>
        ELSE /\ Len(calls) = 1
             /\ calls[1].f.__name__ = requestcmd

\* C3: when the handler raises IOError or OSError with a file name and an
\* errno, run() prints the line `<command>: <path>: <message>' (on standard
\* error), which holds the path, and the exit status is that errno.
C3_IOFailureExitsErrno ==
    (/\ pc = "done"
     /\ Len(calls) = 1
     /\ calls[1].did.kind \in {"IOError", "OSError"}
     /\ calls[1].did.filename # <<>>
     /\ calls[1].did.errno # <<>>) =>
        LET err == calls[1].did
        IN  /\ stderr = << CommandWord \o <<": ">> \o err.filename[1]
                              \o <<": ">> \o err.strerror[1] >>
            /\ Contains(stderr[1], err.filename[1])
            /\ exitstatus = err.errno[1]

\* C3 witness: a handler raised the file-not-found failure for /no/such/file
\* and the process has ended with status 2.
C3_Witness ==
    /\ pc = "done"
    /\ Len(calls) = 1
    /\ calls[1].did.kind = "IOError"
    /\ calls[1].did.filename = << <<"/", "no", "/", "such", "/", "file">> >>
    /\ calls[1].did.errno = <<2>>
    /\ exitstatus = 2

\* The program name with no argument after it.
NoArguments == <<sys_argv[1]>>

\* C4: under the dispatcher's own name, a help flag as the first argument
\* prints what no argument at all prints: the banner, the usage line,
\* `Available commands:' and the command list, the usage hint, on standard
\* output; the process ends with status 1 and no handler is called.
C4_HelpSameContent ==
    (pc = "done" /\ AskedForHelp) =>
        /\ stdout = Dispatch(NoArguments, width, _cmds, system,
                             CHOOSE b \in Behaviours : TRUE).stdout
        /\ Len(stdout) >= 4
        /\ stdout[1] = showbanner(width)
        /\ stdout[2] = <<"Usage: ">> \o basename(sys_argv[1])
                          \o <<" COMMAND [ OPTIONS ... ]\n">>
        /\ stdout[3] = <<"Available commands:">>
        /\ stdout[Len(stdout)] = <<"\nUse ">> \o basename(sys_argv[1])
                                    \o <<" COMMAND --help' for help">>
        /\ \A i \in 1..Len(_cmds) :
               \E k \in 4..(Len(stdout) - 1) :
                   Contains(stdout[k], _cmds[i].__name__)
        /\ stderr = <<>>
        /\ exitstatus = 1
        /\ calls = <<>>

\* C4 witness: `pycoreutils.py -?' with two commands registered has printed
\* the help, whose fourth line holds a command name, and ended with status 1.
C4_Witness ==
    /\ pc = "done"
    /\ sys_argv = << <<"bin", "/", "pycoreutils.py">>, <<"-?">> >>
    /\ Len(_cmds) = 2
    /\ stdout[3] = <<"Available commands:">>
    /\ Len(stdout) >= 5
    /\ exitstatus = 1

\* C5: when the handler of the dispatched command writes its text to standard
\* output and returns, standard output holds exactly that text, the
\* dispatcher has written nothing on either stream, and the exit status is 0.
C5_HandlerOutputOnly ==
    (/\ pc = "done"
     /\ Len(calls) = 1
     /\ calls[1].did.kind = "return") =>
        /\ stdout = calls[1].did.out
        /\ stderr = <<>>
        /\ exitstatus = 0

\* C5 witness: `coreutils.py arch' called the handler, which wrote 42 and
\* returned; standard output is 42 and the status is 0.
C5_Witness ==
    /\ pc = "done"
    /\ sys_argv = << <<"coreutils.py">>, <<"arch">> >>
    /\ Len(calls) = 1
    /\ calls[1].did = [kind |-> "return", out |-> << <<"42">> >>]
    /\ stdout = << <<"42">> >>
    /\ exitstatus = 0

\* The handler and the argument string of each call.
HandlerAndArgs(cs) ==
    [i \in 1..Len(cs) |-> <<cs[i].f, cs[i].argstr>>]

\* What the handler did in this run (any behaviour when none was called).
Did ==
    IF calls = <<>> THEN CHOOSE b \in Behaviours : TRUE ELSE calls[1].did

\* The command lines that ask for the command c with the arguments a: after
\* the dispatcher's own name, and as a path whose last component is c.
FormsOf(c, a) ==
    {<< <<"coreutils.py">>, c >> \o a,
     << <<"bin", "/", "pycoreutils.py">>, c >> \o a,
     <<c>> \o a,
     << <<"bin", "/">> \o c >> \o a,
     << <<"usr", "/", "bin", "/">> \o c >> \o a}

\* C6: the two invocation forms are equivalent.  For a registered command c
\* and arguments a, run() on [dispatcher name, c] + a and run() on
\* [path ending in c] + a make the same handler call with the same argument
\* string; the command name is c in both (the first argument in the first
\* form, the program name in the second), and a call gets a joined by blanks.
C6_FormsEquivalent ==
    (Dispatched /\ Registered(requestcmd)) =>
        /\ requestcmd = basename(CommandWord)
        /\ \A av \in FormsOf(requestcmd, ArgsAfterName) :
               LET other == Dispatch(av, width, _cmds, system, Did)
               IN  /\ HandlerAndArgs(other.calls) = HandlerAndArgs(calls)
                   /\ other.requestcmd = requestcmd
        /\ \A i \in 1..Len(calls) :
               /\ calls[i].f.__name__ = requestcmd
               /\ calls[i].argstr = join(<<" ">>, ArgsAfterName)

\* C6 witness: `coreutils.py arch --help f' has called the handler arch with
\* the argument string `--help f'.
C6_Witness ==
    /\ pc = "done"
    /\ sys_argv = << <<"coreutils.py">>, <<"arch">>, <<"--help">>, <<"f">> >>
    /\ Len(calls) = 1
    /\ calls[1].f.__name__ = <<"arch">>
    /\ calls[1].argstr = <<"--help", " ", "f">>

\* C7: run() calls at most one handler, at most once; when exactly one entry
\* carries the requested name and the platform check passes, run() calls
\* that entry's function exactly once.
C7_ExactlyOneCall ==
    /\ Len(calls) <= 1
    /\ (Dispatched /\ Cardinality(EntriesNamed(requestcmd)) = 1) =>
           LET f == _cmds[CHOOSE i \in EntriesNamed(requestcmd) : TRUE]
           IN  ~(f._onlyunix /\ system = "Windows") =>
                   /\ Len(calls) = 1
                   /\ calls[1].f = f

\* C7 witness: with chown and the two arch functions registered, the link
\* bin/chown has called chown once on Linux.
C7_Witness ==
    /\ pc = "done"
    /\ system = "Linux"
    /\ Len(_cmds) = 3
    /\ sys_argv[1] = <<"bin", "/", "chown">>
    /\ Len(calls) = 1
    /\ calls[1].f = chown_init
    /\ Cardinality(EntriesNamed(<<"arch">>)) = 2

\* The names looked up: those of the functions, and one no function has.
LookupNames == {f.__name__ : f \in Funcs} \cup {<<"nosuch">>}

\* C8: after any sequence of registrations, the lookup of a registered name
\* returns the function registered under it and the lookup of a name never
\* registered returns False, without raising.
C8_LookupReturnsEntry ==
    /\ \A i \in 1..Len(_cmds) :
           checkcommand(_cmds, _cmds[i].__name__)
               = [tag |-> "function", f |-> _cmds[i]]
    /\ \A n \in LookupNames :
           ~Registered(n) => checkcommand(_cmds, n) = [tag |-> "False"]

\* C9: after any sequence of registrations, listcommands() holds every
\* registered name exactly once.
C9_ListedExactlyOnce ==
    \A i \in 1..Len(_cmds) :
        Cardinality({k \in 1..Len(listcommands(_cmds)) :
                        listcommands(_cmds)[k] = _cmds[i].__name__}) = 1

\* C10: the registry never holds two entries with the same name: a
\* registration under a name that exists is rejected or replaces the entry.
C10_NamesUnique ==
    \A i, j \in 1..Len(_cmds) :
        _cmds[i].__name__ = _cmds[j].__name__ => i = j

\* The concatenation of the lines of a text.
RECURSIVE Flatten(_)
Flatten(lines) ==
    IF lines = <<>> THEN <<>> ELSE Head(lines) \o Flatten(Tail(lines))

\* The names a text enumerates, in the order of the text: its words that are
\* neither a comma nor a blank.
NamesListed(lines) ==
    LET atoms == SelectSeq(Flatten(lines), LAMBDA a : a \notin {",", " "})
    IN  [i \in 1..Len(atoms) |-> <<atoms[i]>>]

\* The names of the entries of the registry, first registered first.
RegisteredNames == [i \in 1..Len(_cmds) |-> _cmds[i].__name__]

\* The lines of the global help between `Available commands:' and the hint.
HelpList == SubSeq(stdout, 4, Len(stdout) - 1)

\* C11, in every state: listcommands() is the names of the registry from its
\* first entry to its last, and the global help enumerates the same names in
\* the same order after `Available commands:'.
C11_ListsRegistry ==
    /\ listcommands(_cmds) = RegisteredNames
    /\ (pc = "done" /\ AskedForHelp) =>
           NamesListed(HelpList) = RegisteredNames

\* C11: listcommands() returns the registered names in the order of their
\* registration (a registration puts its function at the end of the registry
\* and moves no entry), and the global help enumerates them in that order.
C11_RegistrationOrder ==
    /\ []C11_ListsRegistry
    /\ [][_cmds' # _cmds =>
              \E f \in Funcs : _cmds' = Append(_cmds, f)]_vars

\* C11 witness: chown, arch and sh were registered in this order, which is not
\* the alphabetical one, and the help of width 12 lists chown, arch, sh on
\* more than one line.
C11_Witness ==
    /\ pc = "done"
    /\ AskedForHelp
    /\ width = 12
    /\ _cmds = <<chown_init, arch_init, sh_cmd>>
    /\ Len(HelpList) > 1
    /\ NamesListed(HelpList) = << <<"chown">>, <<"arch">>, <<"sh">> >>

\* The letters of the names of the module's commands.
Spelling ==
    [arch |-> <<"a", "r", "c", "h">>,
     cd |-> <<"c", "d">>,
     chroot |-> <<"c", "h", "r", "o", "o", "t">>,
     httpd |-> <<"h", "t", "t", "p", "d">>,
     ln |-> <<"l", "n">>,
     mktemp |-> <<"m", "k", "t", "e", "m", "p">>,
     mv |-> <<"m", "v">>,
     rm |-> <<"r", "m">>,
     rmdir |-> <<"r", "m", "d", "i", "r">>,
     sendmail |-> <<"s", "e", "n", "d", "m", "a", "i", "l">>,
     smtpd |-> <<"s", "m", "t", "p", "d">>,
     sleep |-> <<"s", "l", "e", "e", "p">>,
     whoami |-> <<"w", "h", "o", "a", "m", "i">>,
     yes |-> <<"y", "e", "s">>]

\* The lower-case letters in the order of their code points.
Alphabet ==
    <<"a", "b", "c", "d", "e", "f", "g", "h", "i", "j", "k", "l", "m", "n",
      "o", "p", "q", "r", "s", "t", "u", "v", "w", "x", "y", "z">>

\* The rank of a letter among the code points.
ord(c) == CHOOSE i \in 1..Len(Alphabet) : Alphabet[i] = c

\* s < t for two strings given by their letters: the first letter that
\* differs decides, and a proper prefix is the smaller one.
RECURSIVE StrLess(_, _)
StrLess(s, t) ==
    IF t = <<>> THEN FALSE
    ELSE IF s = <<>> THEN TRUE
    ELSE IF s[1] # t[1] THEN ord(s[1]) < ord(t[1])
    ELSE StrLess(Tail(s), Tail(t))

\* Is the command name n greater than the command name m?
NameGreater(n, m) == StrLess(Spelling[m[1]], Spelling[n[1]])

\* C12: the command names the global help prints are sorted: of two names
\* printed, the one printed first is not greater than the one printed later.
C12_HelpListSorted ==
    (pc = "done" /\ AskedForHelp) =>
        LET names == NamesListed(HelpList)
        IN  \A i, j \in 1..Len(names) :
                i < j => ~NameGreater(names[i], names[j])

\* The argument lists a command may be given: those of the model, and a help
\* flag of the dispatcher alone.
AnyArguments == OtherLists(MaxArgs - 1) \cup {<<h>> : h \in HelpFlags}

\* The command line up to the command name.
UpToCommand ==
    IF GenericForm THEN SubSeq(sys_argv, 1, 2) ELSE SubSeq(sys_argv, 1, 1)

\* C13: a called handler gets one string, the arguments after the command
\* name in their order with one blank between two of them (neither the
\* program name nor the command name is put before them); and the dispatcher
\* reads no flag among them: whatever follows the command name, a help flag
\* included, the same handler is called with those arguments joined, and
\* nothing but the handler's output is printed.
C13_ArgumentString ==
    (pc = "done" /\ Len(calls) = 1) =>
        /\ calls[1].argstr = join(<<" ">>, ArgsAfterName)
        /\ \A a \in AnyArguments :
               LET other == Dispatch(UpToCommand \o a, width, _cmds, system,
                                     calls[1].did)
               IN  /\ Len(other.calls) = 1
                   /\ other.calls[1].f = calls[1].f
                   /\ other.calls[1].argstr = join(<<" ">>, a)
                   /\ other.stdout = stdout
                   /\ other.stderr = stderr
                   /\ other.exitstatus = exitstatus

\* C13 witness: `bin/chown arch f' on Linux, with arch registered too, has
\* called chown with `arch f'.
C13_Witness ==
    /\ pc = "done"
    /\ system = "Linux"
    /\ sys_argv = << <<"bin", "/", "chown">>, <<"arch">>, <<"f">> >>
    /\ Registered(<<"arch">>)
    /\ Len(calls) = 1
    /\ calls[1].f = chown_init
    /\ calls[1].argstr = <<"arch", " ", "f">>

\* What the called command did.
did == calls[1].did

\* The calls of the operating system that failed in the command.
FailedCalls == {i \in 1..Len(did.ops) : did.ops[i].error # <<>>}

\* C14: whenever a call of the operating system fails inside a handler, that
\* failure reaches run(), which prints `<command>: <path>: <message>' for it
\* on standard error, and the process exits with its error number.
C14_EveryFailureReachesDispatcher ==
    (pc = "done" /\ Len(calls) = 1) =>
        \A i \in FailedCalls :
            LET e == did.ops[i].error[1]
            IN  /\ stderr = <<ErrorLine(argv, e)>>
                /\ raised = "SystemExit"
                /\ exitstatus = e.errno[1]

\* The exceptions run() has an except clause for, and the exit of sys.exit.
Handled == {"IOError", "OSError", "SystemExit"}

\* C15: when the handler raises a failure that is neither IOError nor OSError
\* (as mktemp does for a TEMPLATE), run() does not catch it: the exception
\* leaves run(), the only text on standard error is the interpreter's
\* traceback (no `<command>: <path>: <message>' line), the dispatcher adds
\* nothing to standard output, and the exit status is not 0.
C15_OtherFailurePropagates ==
    (/\ pc = "done"
     /\ Len(calls) = 1
     /\ calls[1].did.kind \notin Handled \cup {"return"}) =>
        /\ raised = calls[1].did.kind
        /\ stdout = calls[1].did.out
        /\ stderr = << <<"Traceback: ", calls[1].did.kind>> >>
        /\ exitstatus # 0

\* C15 witness: a called handler raised NotImplementedError and the process
\* has ended with it, with status 1.
C15_Witness ==
    /\ pc = "done"
    /\ Len(calls) = 1
    /\ calls[1].did.kind = "NotImplementedError"
    /\ raised = "NotImplementedError"
    /\ exitstatus = 1

\* C16: a registered command that the platform allows, dispatched with
\* --license as its first argument, prints the license text and nothing
\* else, does nothing of its own, and the process ends with status 0.
C16_LicenseAlwaysPrinted ==
    (/\ pc # "startup"
     /\ ~AskedForHelp
     /\ Registered(requestcmd)
     /\ \A i \in EntriesNamed(requestcmd) : ~OnlyUnixRefused(_cmds[i], system)
     /\ ArgsAfterName # <<>>
     /\ ArgsAfterName[1] = <<"--license">>) =>
        /\ pc = "done"
        /\ stdout = <<__license__>>
        /\ stderr = <<>>
        /\ exitstatus = 0
        /\ Len(calls) = 1
        /\ did.ops = <<>>

\* The fewest and the most operands a command takes, for the commands that
\* refuse a missing or an extra operand.
OperandLimits ==
    [arch |-> [min |-> 0, max |-> 0],
     cd |-> [min |-> 0, max |-> 1],
     chroot |-> [min |-> 1, max |-> MaxWords + 1],
     ln |-> [min |-> 1, max |-> 2],
     mktemp |-> [min |-> 0, max |-> 1],
     mv |-> [min |-> 2, max |-> MaxWords + 1],
     rm |-> [min |-> 1, max |-> MaxWords + 1],
     rmdir |-> [min |-> 1, max |-> MaxWords + 1],
     sleep |-> [min |-> 1, max |-> MaxWords + 1],
     whoami |-> [min |-> 0, max |-> 0]]

\* The command line holds operands only, too few or too many of them for the
\* command that was called.
OperandError ==
    /\ pc = "done"
    /\ Len(calls) = 1
    /\ requestcmd[1] \in DOMAIN OperandLimits
    /\ \A i \in 1..Len(ArgsAfterName) : ArgsAfterName[i] \notin Dashed
    /\ \/ Len(ArgsAfterName) < OperandLimits[requestcmd[1]].min
       \/ Len(ArgsAfterName) > OperandLimits[requestcmd[1]].max

\* C17: a handler that restricts its operands answers a missing or an extra
\* operand with a message of its own and sys.exit with status 1 or 127: the
\* process does not end with status 0 or with an uncaught exception.
C17_OperandErrorExits ==
    OperandError =>
        /\ stdout # <<>>
        /\ raised = "SystemExit"
        /\ exitstatus \in {1, 127}

\* C18: the registry is read-only once run() starts: the step that runs
\* run(), with the calls of checkcommand() and listcommands() in it, leaves
\* _cmds as it was on every path (help, unknown command, platform refusal,
\* handler success, handler failure), and nothing changes it afterwards.
C18_RegistryReadOnly ==
    [][(pc' = "done") => (_cmds' = _cmds)]_vars

\* C18 witness: after three registrations run() called a handler that failed
\* with OSError; the registry still holds the three functions.
C18_Witness ==
    /\ pc = "done"
    /\ _cmds = <<arch_init, chown_init, sh_cmd>>
    /\ Len(calls) = 1
    /\ calls[1].did.kind = "OSError"
    /\ raised = "SystemExit"

\* The process has ended the way run() ends it for an IOError of print().
BrokenPipeEnd ==
    /\ pc' = "done"
    /\ calls[1].f = yes_init
    /\ stderr' = stderr \o <<ErrorLine(argv, EPIPE)>>
    /\ raised' = "SystemExit"
    /\ exitstatus' = EPIPE.errno[1]

\* The process has ended cleanly: status 0, no exception but the SystemExit
\* of sys.exit(), and nothing added to either stream.
CleanEnd ==
    /\ pc' = "done"
    /\ exitstatus' = 0
    /\ raised' \in {None, "SystemExit"}
    /\ stdout' = stdout
    /\ stderr' = stderr

C20_CaughtFailureNonZero ==
    (/\ pc = "done"
     /\ Len(calls) = 1
     /\ calls[1].did.kind \in {"IOError", "OSError"}) =>
        exitstatus # 0

\* C21: joining then splitting is a round trip: the words a command gets by
\* splitting the argument string run() hands it are the arguments that
\* follow the command name on the command line, the same in number, content
\* and order, arguments that hold blanks and empty ones included.
C21_JoinSplitRoundTrip ==
    (pc # "startup" /\ calls # <<>>)
        => split(calls[1].argstr) = ArgsAfterName

\* ln was run with the two operands TARGET and LINK_NAME, and the creation
\* of LINK_NAME, its first call of os.link, succeeded.
LnFirstForm ==
    /\ pc = "done"
    /\ calls # <<>>
    /\ calls[1].f = ln_init
    /\ Len(ArgsAfterName) = 2
    /\ \A i \in 1..2 : ArgsAfterName[i] \notin Dashed
    /\ did.ops # <<>>
    /\ did.ops[1] = OsCall("os.link", ArgsAfterName[1], <<>>)

\* C23: ln TARGET LINK_NAME creates exactly one link, LINK_NAME to TARGET,
\* attempts no other link creation, and when that creation succeeds it ends
\* without an error message and without exit status 1.
C23_LnOneLink ==
    LnFirstForm =>
        /\ Len(did.ops) = 1
        /\ stdout = <<>>
        /\ stderr = <<>>
        /\ exitstatus = 0

\* Does the string s hold a blank?
HasBlank(s) == \E i \in 1..Len(s) : s[i] = " "

\* The command line gives the command f exactly the operands wanted says,
\* each of them a word run() hands on unchanged (not empty, no blank).
Given(f, n) ==
    /\ pc = "done"
    /\ calls # <<>>
    /\ calls[1].f = f
    /\ Len(ArgsAfterName) = n
    /\ \A i \in 1..n : ArgsAfterName[i] # <<>> /\ ~HasBlank(ArgsAfterName[i])

\* Does the string s end with the string t?
EndsWith(s, t) ==
    Len(t) <= Len(s) /\ SubSeq(s, Len(s) - Len(t) + 1, Len(s)) = t

\* s without the one trailing occurrence of t, all of s when it has none.
WithoutSuffix(s, t) ==
    IF EndsWith(s, t) THEN SubSeq(s, 1, Len(s) - Len(t)) ELSE s

\* C24: basename NAME SUFFIX prints NAME without its leading directories, and
\* without SUFFIX only when what remains ends with exactly that string:
\* nothing but that one trailing occurrence is removed.
C24_BasenameSuffix ==
    Given(basename_init, 2)
        => stdout = << WithoutSuffix(basename(ArgsAfterName[1]),
                                     ArgsAfterName[2]) >>

\* mkdir -p is at work on its operands.
InMkdirParents == pc \in {"mkdir", "while", "for"} /\ frame.parents

\* mkdir -p has returned.
MkdirParentsReturned ==
    /\ pc = "done"
    /\ calls # <<>>
    /\ calls[1].f = mkdir_init
    /\ frame # <<>>
    /\ frame.parents
    /\ raised = None

\* The directories mkdir has made, in the order of the calls.
Made ==
    LET ops == calls[1].did.ops
        RECURSIVE made(_)
        made(i) == IF i > Len(ops) THEN <<>>
                   ELSE IF ops[i].error = <<>>
                   THEN <<ops[i].arg>> \o made(i + 1)
                   ELSE made(i + 1)
    IN  made(1)

\* The path p and the paths above it, the root and the working directory
\* left out.
RECURSIVE Ancestors(_)
Ancestors(p) ==
    IF p = <<>> \/ p = <<"/">> THEN {}
    ELSE {p} \cup Ancestors(os_path_split(p).head)

\* The operands of the command line, the options left out.
Operands ==
    {ArgsAfterName[i] : i \in {j \in 1..Len(ArgsAfterName) :
                                   ArgsAfterName[j][1] \notin {"-p", "-v"}}}

\* C22: mkdir -p PATH terminates for every PATH, absolute or relative,
\* whatever subset of its ancestors exists: every turn of the while loop
\* leaves a shorter path to test (the loop tests nothing but the path and
\* the file system, which it does not change, so a turn that does not
\* shorten the path is followed by the same turn for ever), and mkdir -p
\* that is at work ends; when it has returned, PATH and every ancestor of
\* it exist, each directory was made after its parent, and with -v one
\* message was printed per directory made.
C22_MkdirParentsTerminates ==
    /\ [][(pc = "while" /\ pc' = "while")
              => Len(frame'.path) < Len(frame.path)]_vars
    /\ InMkdirParents ~> (pc = "done")
    /\ [](MkdirParentsReturned =>
            /\ \A p \in Operands : \A q \in Ancestors(p) :
                   os_path_exists(fs, q)
            /\ \A i, j \in 1..Len(Made) :
                   (Made[i] \in Ancestors(Made[j]) /\ i # j) => i < j
            /\ frame.verbose =>
                   stdout = [i \in 1..Len(Made) |-> Created(Made[i])])

\* The numbers given to seq, the word -- that may precede them left out.
SeqOperands ==
    IF ArgsAfterName # <<>> /\ ArgsAfterName[1] = <<"-", "-">>
    THEN Tail(ArgsAfterName) ELSE ArgsAfterName

\* seq was called with one to three integers, the increment not 0.
SeqGiven ==
    /\ pc = "done"
    /\ calls # <<>>
    /\ calls[1].f = seq_init
    /\ Len(SeqOperands) \in 1..3
    /\ \A i \in 1..Len(SeqOperands) : IsInt(SeqOperands[i])
    /\ Len(SeqOperands) = 3 => int(SeqOperands[2]) # 0

\* FIRST, INCREMENT and LAST as the operands give them: FIRST and
\* INCREMENT are 1 when they are not given.
FIRST == IF Len(SeqOperands) = 1 THEN 1 ELSE int(SeqOperands[1])

INCREMENT == IF Len(SeqOperands) = 3 THEN int(SeqOperands[2]) ELSE 1

LAST == int(SeqOperands[Len(SeqOperands)])

\* Is x between FIRST and LAST, both included, on the way from FIRST that
\* INCREMENT takes: upwards when it is positive, downwards when negative?
Between(x) ==
    IF INCREMENT > 0 THEN FIRST <= x /\ x <= LAST
    ELSE LAST <= x /\ x <= FIRST

\* FIRST, FIRST+INCREMENT, FIRST+2*INCREMENT, ... as far as they lie between
\* FIRST and LAST (the model's numbers are less than 8 steps apart).
Steps ==
    LET ks == {k \in 0..8 : \A j \in 0..k : Between(FIRST + j * INCREMENT)}
    IN  [k \in 1..Cardinality(ks) |-> FIRST + (k - 1) * INCREMENT]

\* C25: seq LAST, seq FIRST LAST and seq FIRST INCREMENT LAST print exactly
\* the numbers FIRST, FIRST+INCREMENT, ... that lie between FIRST and LAST
\* inclusive, for every integer FIRST and LAST and every non-zero
\* INCREMENT, positive or negative: LAST itself when it is reachable.
C25_SeqPrintsSteps ==
    SeqGiven => stdout = [k \in 1..Len(Steps) |-> str(Steps[k])]

\* touch was run for the operands of the command line and has returned;
\* no option but -c was given.
TouchRan ==
    /\ pc = "startup"
    /\ pc' = "done"
    /\ calls' # <<>>
    /\ calls'[1].f = touch_init
    /\ raised' = None
    /\ ArgsAfterName' # <<>>
    /\ \A i \in 1..Len(ArgsAfterName') :
           ArgsAfterName'[i] \in TouchFiles \cup {<<"-c">>}

\* C26: touch FILE... sets the access and modification times of each FILE
\* to the current time; with -c a FILE that does not exist is skipped and
\* not created, and every other FILE, before or after it in the list, still
\* has its times set.
C26_TouchEveryFile ==
    [][TouchRan =>
         LET given == {ArgsAfterName'[i] : i \in 1..Len(ArgsAfterName')}
             nocreate == <<"-c">> \in given
             touched(a) ==
                 /\ a \in DOMAIN fs'.times
                 /\ fs'.times[a] = [atime |-> Now, mtime |-> Now]
         IN  \A a \in given \cap TouchFiles :
                 IF nocreate /\ a \notin DOMAIN fs.times
                 THEN a \notin DOMAIN fs'.times
                 ELSE touched(a)]_vars

\* base64 was run with the arguments args.
Base64Ran(args) ==
    /\ pc = "done"
    /\ calls # <<>>
    /\ calls[1].f = base64_init
    /\ ArgsAfterName = args

\* C27: base64 -d without a FILE operand, or with the single operand -,
\* reads the data to decode from standard input and writes what it decodes
\* to standard output: the source and the sink of base64 without -d.
C27_DecodeReadsStdin ==
    \A l \in {<<>>, << <<"-">> >>} :
        (Base64Ran(<< <<"-d">> >> \o l) /\ IsBase64(stdin))
            => /\ calls[1].did.ops[1].arg = sys_stdin
               /\ stdout = b64decode(stdin)

\* shuf has returned.
ShufReturned ==
    /\ pc = "done"
    /\ calls # <<>>
    /\ calls[1].f = shuf_init
    /\ raised = None

\* The operands of shuf on the command line, the options and their values
\* left out.
ShufOperands ==
    parse_args(<<"shuf">>, ArgsAfterName, {<<"-e">>}, ShufValued, {}, <<>>).args

\* The value the command line gives the option opt of shuf.
ShufOption(opt) == option_value(ArgsAfterName, ShufValued, opt)

\* The input lines of shuf: the ARGs with -e, the numbers LO to HI with
\* -i LO-HI, else the lines of FILE (the files of the model are empty) or
\* of standard input.
ShufInput ==
    LET lohi == split_dash(ShufOption(<<"-i">>)[1])
        lo == int(lohi[1])
        hi == int(lohi[2])
    IN  IF <<"-e">> \in {ArgsAfterName[i] : i \in 1..Len(ArgsAfterName)}
        THEN ShufOperands
        ELSE IF ShufOption(<<"-i">>) # <<>>
        THEN [i \in 1..(hi + 1 - lo) |-> str(lo + i - 1)]
        ELSE IF ShufOperands = <<>> THEN LinesOfText(stdin)
        ELSE <<>>

\* How often the line x occurs in the list ls.
Count(x, ls) == Cardinality({i \in 1..Len(ls) : ls[i] = x})

\* C28: shuf writes a permutation of its input lines: without -n the output
\* holds exactly the input lines, each as often as the input; with
\* -n HEADCOUNT it holds at most HEADCOUNT lines, each of them an input line
\* and none more often than the input holds it.
C28_ShufPermutes ==
    ShufReturned =>
        LET n == ShufOption(<<"-n">>)
            all == {stdout[i] : i \in 1..Len(stdout)}
                   \cup {ShufInput[i] : i \in 1..Len(ShufInput)}
        IN  IF n = <<>>
            THEN \A x \in all : Count(x, stdout) = Count(x, ShufInput)
            ELSE (IsInt(n[1]) /\ int(n[1]) >= 0)
                     => /\ Len(stdout) <= int(n[1])
                        /\ \A x \in all :
                               Count(x, stdout) <= Count(x, ShufInput)
====
